---------------------------- MODULE Spec2Model ----------------------------
(***************************************************************************)
(* A model of hover_net/infer/wsi.py: the coordinate planner, the chunked  *)
(* inference writer, the post-processing dispatcher and the three-phase    *)
(* merge of tile results into the instance map and the instance table.     *)
(*                                                                         *)
(* Shapes and coordinates are pairs <<row, col>> (axis 1 = y, axis 2 = x). *)
(* Lists returned by the planner are sequences in the order the code       *)
(* returns them.                                                           *)
(***************************************************************************)
EXTENDS Integers, Sequences, FiniteSets, TLC

VARIABLES
    g_img,      \* planner: image_shape handed to the planner
    g_pin,      \* planner: patch input shape
    g_pout,     \* planner: patch output shape
    g_call,     \* planner: which function has been called ("none" before)
    g_res,      \* planner: what the call returned
    w_cfg,      \* inference: the slide (wsi_proc_shape, wsi_mask) and the shapes
    w_chunks,   \* inference: chunk_info_list
    w_patches,  \* inference: patch_info_list
    w_idx,      \* inference: index of the next chunk of the loop
    w_pc,       \* inference: where __get_raw_prediction stands
    w_queue,    \* inference: tasks handed to proc_pool and not yet taken
    w_worker,   \* inference: what each process of proc_pool is executing
    w_pred_map, \* inference: the raw prediction buffer (pred_map.npy)
    w_log,      \* inference: slide reads and model runs made, per chunk
    m_cfg,          \* post-processing: the slide (shape, tile_shape, ambiguous_size, foreground)
    m_tiles,        \* post-processing: the three tile lists after the tissue filter
    wsi_inst_map,   \* self.wsi_inst_map: pixel -> instance id (0 = background)
    wsi_inst_info,  \* self.wsi_inst_info: instance id -> instance info
    m_phase,        \* post-processing: the phase being dispatched (1, 2, 3; 4 = all done)
    m_status,       \* post-processing: phase -> tile index -> state of the tile
    m_drops,        \* post-processing: how many ids the segmenter left out of its info maps
    d_workers,      \* dispatcher: self.nr_post_proc_workers (0 = synchronous)
    d_pc,           \* dispatcher: where __dispatch_post_processing stands
    d_idx,          \* dispatcher: index of the submit loop
    d_cb,           \* dispatcher: the merge callbacks being executed
    d_out,          \* dispatcher: tile index -> what its future holds (result of the worker)
    d_result,       \* dispatcher: phase -> how its dispatch ended
    d_start,        \* dispatcher: the map and the table when the phase was entered
    d_given,        \* dispatcher: every <<key, entry>> a merge has inserted so far
    b_cfg,          \* batch: the configured shapes and the save_mask, save_thumb flags
    b_glob,         \* batch: what glob returned, the entries of input_dir in some order
    b_entry,        \* batch: entry -> what it is (directory, slide with or without output, mask)
    b_list,         \* batch: wsi_path_list after the sort
    b_idx,          \* batch: index of the loop of process_wsi_list
    b_pc,           \* batch: where process_wsi_list / process_single_file stands
    b_log           \* batch: the I/O and the log events so far, in order

gvars == <<g_img, g_pin, g_pout, g_call, g_res>>

wvars == <<w_cfg, w_chunks, w_patches, w_idx, w_pc, w_queue, w_worker, w_pred_map, w_log>>

mvars == <<m_cfg, m_tiles, wsi_inst_map, wsi_inst_info, m_phase, m_status, m_drops>>

dvars == <<d_workers, d_pc, d_idx, d_cb, d_out, d_result, d_start, d_given>>

bvars == <<b_cfg, b_glob, b_entry, b_list, b_idx, b_pc, b_log>>

vars == <<gvars, wvars, mvars, dvars, bvars>>

(***************************************************************************)
(* Bounds of the planner model.                                            *)
(***************************************************************************)
MaxImg == 7
MaxPatch == 3
MaxChunk == 6

Axes == 1..2

\* The pixels of the box with the given top-left and shape, and of [tl, br).
BoxPixels(tl, shape) ==
    (tl[1]..(tl[1] + shape[1] - 1)) \X (tl[2]..(tl[2] + shape[2] - 1))

RectPixels(tl, br) == (tl[1]..(br[1] - 1)) \X (tl[2]..(br[2] - 1))

Max2(a, b) == IF a >= b THEN a ELSE b
Min2(a, b) == IF a <= b THEN a ELSE b

(***************************************************************************)
(* np.arange(start, stop, step) for step > 0.                              *)
(***************************************************************************)
Arange(start, stop, step) ==
    LET n == IF stop > start THEN ((stop - start) + step - 1) \div step ELSE 0
    IN  [i \in 1..n |-> start + (i - 1) * step]

(***************************************************************************)
(* np.meshgrid(y_coords, x_coords) followed by flatten() and stack: the    *)
(* default "xy" indexing gives arrays of shape (len(x), len(y)), so the    *)
(* flattened list runs through y_coords fastest.                           *)
(***************************************************************************)
MeshPairsRowMajor(y_coords, x_coords) ==
    LET ny == Len(y_coords)
        nx == Len(x_coords)
    IN  [k \in 1..(nx * ny) |->
            <<y_coords[((k - 1) \div nx) + 1], x_coords[((k - 1) % nx) + 1]>>]

MeshPairs(y_coords, x_coords) ==
    LET ny == Len(y_coords)
        nx == Len(x_coords)
    IN  [k \in 1..(nx * ny) |->
            <<y_coords[((k - 1) % ny) + 1], x_coords[((k - 1) \div ny) + 1]>>]

ValueError == [err |-> TRUE]

NoRes == [err |-> FALSE]

\* The planner is not part of the run.
GridIdle ==
    /\ g_img = <<0, 0>>
    /\ g_pin = <<0, 0>>
    /\ g_pout = <<0, 0>>
    /\ g_call = "off"
    /\ g_res = NoRes

\* Two writer processes instead of one.
WriterProcessesTwo == 1 + 1

\* The number of processes of the writer pool: Pool(processes=1).
WriterProcesses == 1

Writers == 1..WriterProcesses

Idle == [busy |-> FALSE]

\* The inference engine is not part of the run.
WriterIdle ==
    /\ w_cfg = [img |-> <<0, 0>>]
    /\ w_chunks = <<>>
    /\ w_patches = <<>>
    /\ w_idx = 0
    /\ w_pc = "off"
    /\ w_queue = <<>>
    /\ w_worker = [w \in Writers |-> Idle]
    /\ w_pred_map = <<>>
    /\ w_log = <<>>

EmptyDict == [k \in {} |-> 0]

Phases == 1..3

\* No batch is being processed.
BatchIdle ==
    /\ b_cfg = <<>>
    /\ b_glob = <<>>
    /\ b_entry = <<>>
    /\ b_list = <<>>
    /\ b_idx = 0
    /\ b_pc = "off"
    /\ b_log = <<>>

\* The dispatcher and the merge are not part of the run.
DispatchIdle ==
    /\ d_workers = 0
    /\ d_pc = "off"
    /\ d_idx = 0
    /\ d_cb = {}
    /\ d_out = <<>>
    /\ d_result = [ph \in Phases |-> "none"]
    /\ d_start = <<>>
    /\ d_given = {}

MergeIdle ==
    /\ m_cfg = [img |-> <<0, 0>>]
    /\ m_tiles = <<>>
    /\ wsi_inst_map = <<>>
    /\ wsi_inst_info = EmptyDict
    /\ m_phase = 0
    /\ m_status = <<>>
    /\ m_drops = 0
    /\ DispatchIdle


(***************************************************************************)
(* The starting offset of the output grid on one axis.                     *)
(***************************************************************************)
GridStartWhole(patch_size_difference) == patch_size_difference

GridStart(patch_size_difference) == patch_size_difference \div 2

(***************************************************************************)
(* The number of patches on one axis.                                      *)
(***************************************************************************)
NumPatchesNoExtra(image, diff, output) == (image - diff) \div output

NumPatches(image, diff, output) == ((image - diff) \div output) + 1

(***************************************************************************)
(* calculate_patch_coordinates: the validation, then the two lists of      *)
(* top-left coordinates.                                                   *)
(***************************************************************************)
InvalidShapesImageUnchecked(image_shape, input_patch_size, output_patch_size) ==
    \/ \E a \in Axes : input_patch_size[a] <= 0 \/ output_patch_size[a] <= 0
    \/ \E a \in Axes : input_patch_size[a] < output_patch_size[a]

\* The three checks of "Validate inputs": one of them raises ValueError.
InvalidShapes(image_shape, input_patch_size, output_patch_size) ==
    \/ \E a \in Axes : input_patch_size[a] <= 0 \/ output_patch_size[a] <= 0
    \/ \E a \in Axes : input_patch_size[a] < output_patch_size[a]
    \/ \E a \in Axes : image_shape[a] < input_patch_size[a]

calculate_patch_coordinates(image_shape, input_patch_size, output_patch_size) ==
    IF InvalidShapes(image_shape, input_patch_size, output_patch_size)
    THEN ValueError
    ELSE
    LET patch_size_difference ==
            [a \in Axes |-> input_patch_size[a] - output_patch_size[a]]
        num_patches ==
            [a \in Axes |-> NumPatches(image_shape[a], patch_size_difference[a],
                                       output_patch_size[a])]
        last_patch_coord ==
            [a \in Axes |-> (patch_size_difference[a] \div 2)
                            + num_patches[a] * output_patch_size[a]]
        y_coords == Arange(GridStart(patch_size_difference[1]),
                           last_patch_coord[1], output_patch_size[1])
        x_coords == Arange(GridStart(patch_size_difference[2]),
                           last_patch_coord[2], output_patch_size[2])
        output_patch_coords == MeshPairs(y_coords, x_coords)
        input_patch_coords ==
            [k \in 1..Len(output_patch_coords) |->
                <<output_patch_coords[k][1] - (patch_size_difference[1] \div 2),
                  output_patch_coords[k][2] - (patch_size_difference[2] \div 2)>>]
    IN  [err |-> FALSE, input |-> input_patch_coords, output |-> output_patch_coords]

(***************************************************************************)
(* round_to_multiple of _get_chunk_patch_info, for x >= 0 and y > 0.       *)
(***************************************************************************)
round_to_multipleNone(x, y) == x

round_to_multiple(x, y) == (x \div y) * y

(***************************************************************************)
(* The offset from a patch's input top-left to its output top-left in the  *)
(* patch_info_list of _get_chunk_patch_info.                               *)
(***************************************************************************)
PatchOutputOffset(patch_diff) == patch_diff

(***************************************************************************)
(* The bottom-right of a chunk's input box on one axis, after the          *)
(* correction that keeps it within the source image.                       *)
(***************************************************************************)
ChunkInputBrUnclipped(tl, chunk_input, img, patch_diff, patch_output) ==
    tl + chunk_input

ChunkInputBr(tl, chunk_input, img, patch_diff, patch_output) ==
    IF tl + chunk_input > img
    THEN round_to_multiple((img - patch_diff) - tl, patch_output) + tl + patch_diff
    ELSE tl + chunk_input

(***************************************************************************)
(* The distance by which a chunk's output box lies inside its input box on *)
(* each side of one axis: patch_diff_shape // 2.                           *)
(***************************************************************************)
ChunkOutputInsetNone(patch_diff) == 0

ChunkOutputInset(patch_diff) == patch_diff \div 2

(***************************************************************************)
(* _get_chunk_patch_info.  A box is <<top-left, bottom-right>>; an info    *)
(* entry is [input |-> box, output |-> box].  The two shape roundings      *)
(* before the first planner call raise nothing, so the validation of the   *)
(* first call is taken first.                                              *)
(***************************************************************************)
_get_chunk_patch_info(img_shape, chunk_input_shape0, patch_input_shape, patch_output_shape) ==
    LET patch_call == calculate_patch_coordinates(img_shape, patch_input_shape,
                                                  patch_output_shape)
    IN
    IF patch_call.err THEN ValueError
    ELSE
    LET patch_diff_shape ==
            [a \in Axes |-> patch_input_shape[a] - patch_output_shape[a]]
        chunk_output_shape ==
            [a \in Axes |-> round_to_multiple(
                chunk_input_shape0[a] - patch_diff_shape[a], patch_output_shape[a])]
        chunk_input_shape ==
            [a \in Axes |-> chunk_output_shape[a] + patch_diff_shape[a]]
        patch_input_tl_list == patch_call.input
        patch_info_list ==
            [k \in 1..Len(patch_input_tl_list) |->
                LET itl == patch_input_tl_list[k]
                    ibr == <<itl[1] + patch_input_shape[1],
                             itl[2] + patch_input_shape[2]>>
                    otl == <<itl[1] + PatchOutputOffset(patch_diff_shape[1]),
                             itl[2] + PatchOutputOffset(patch_diff_shape[2])>>
                    obr == <<otl[1] + patch_output_shape[1],
                             otl[2] + patch_output_shape[2]>>
                IN  [input |-> <<itl, ibr>>, output |-> <<otl, obr>>]]
        chunk_call == calculate_patch_coordinates(img_shape, chunk_input_shape,
                                                  chunk_output_shape)
    IN
    IF chunk_call.err THEN ValueError
    ELSE
    LET chunk_input_tl_list == chunk_call.input
        chunk_info_list ==
            [k \in 1..Len(chunk_input_tl_list) |->
                LET itl == chunk_input_tl_list[k]
                    ibr == [a \in Axes |->
                              ChunkInputBr(itl[a], chunk_input_shape[a], img_shape[a],
                                           patch_diff_shape[a], patch_output_shape[a])]
                    otl == <<itl[1] + ChunkOutputInset(patch_diff_shape[1]),
                             itl[2] + ChunkOutputInset(patch_diff_shape[2])>>
                    obr == <<ibr[1] - ChunkOutputInset(patch_diff_shape[1]),
                             ibr[2] - ChunkOutputInset(patch_diff_shape[2])>>
                IN  [input |-> <<itl, <<ibr[1], ibr[2]>> >>, output |-> <<otl, obr>>]]
    IN  [err |-> FALSE, chunk |-> chunk_info_list, patch |-> patch_info_list]

(***************************************************************************)
(* The chunked inference engine: __get_raw_prediction, its writer pool and *)
(* _assemble_and_flush.                                                    *)
(***************************************************************************)
WMaxImg == 4
WMaxMask == 2

\* np.rint(n / d) for n >= 0, d > 0: round to nearest, ties to even.
Rint(n, d) ==
    LET q == n \div d
        r == n % d
    IN  IF 2 * r < d THEN q
        ELSE IF 2 * r > d THEN q + 1
        ELSE IF q % 2 = 0 THEN q ELSE q + 1

\* The pixels of array[tl[0]:br[0], tl[1]:br[1]] for an array of the given
\* shape and non-negative bounds: numpy clips the slice to the array.
SlicePixels(tl, br, shape) ==
    (tl[1]..(Min2(br[1], shape[1]) - 1)) \X (tl[2]..(Min2(br[2], shape[2]) - 1))

\* One box of __select_valid_patches: rescaled by down_sample_ratio =
\* wsi_mask.shape[0] / wsi_proc_shape[0], rounded, kept iff the mask sums to
\* a positive value over it.  mask is the set of positive mask pixels.
BoxOnTissue(box, mask, mask_shape, proc_shape) ==
    LET tl == <<Rint(box[1][1] * mask_shape[1], proc_shape[1]),
                Rint(box[1][2] * mask_shape[1], proc_shape[1])>>
        br == <<Rint(box[2][1] * mask_shape[1], proc_shape[1]),
                Rint(box[2][2] * mask_shape[1], proc_shape[1])>>
    IN  SlicePixels(tl, br, mask_shape) \cap mask # {}

\* __select_valid_patches(patch_info_list, has_output_info=True): the
\* entries whose output box is on tissue, in their original order.
select_valid_patches(patch_info_list, mask, mask_shape, proc_shape) ==
    SelectSeq(patch_info_list,
              LAMBDA pi : BoxOnTissue(pi.output, mask, mask_shape, proc_shape))

\* The selection of __get_raw_prediction (masking): the patches whose input
\* top-left lies in [chunk input tl, chunk input br - patch_input_shape].
ChunkPatchesUpToBr(chunk_info, patch_info_list, patch_input_shape) ==
    SelectSeq(patch_info_list,
              LAMBDA pi : \A a \in Axes :
                  /\ chunk_info.input[1][a] <= pi.input[1][a]
                  /\ pi.input[1][a] <= chunk_info.input[2][a])

ChunkPatches(chunk_info, patch_info_list, patch_input_shape) ==
    SelectSeq(patch_info_list,
              LAMBDA pi : \A a \in Axes :
                  /\ chunk_info.input[1][a] <= pi.input[1][a]
                  /\ pi.input[1][a] <= chunk_info.input[2][a] - patch_input_shape[a])

ImagePixels(img) == (0..(img[1] - 1)) \X (0..(img[2] - 1))

\* The tissue of a coarse mask: one rectangle of mask pixels, or all of the
\* mask but one rectangle.
TissueRegions(ms) ==
    LET rects == {(r[1]..r[2]) \X (c[1]..c[2]) :
                     r \in {x \in (0..(ms[1] - 1)) \X (0..(ms[1] - 1)) : x[1] <= x[2]},
                     c \in {x \in (0..(ms[2] - 1)) \X (0..(ms[2] - 1)) : x[1] <= x[2]}}
        all == (0..(ms[1] - 1)) \X (0..(ms[2] - 1))
    IN  (rects \cup {all \ t : t \in rects}) \ {{}}

\* The slides of the inference runs: a coarse mask with some tissue, or a
\* mask at the processing resolution that is tissue all over.
WriterConfigs ==
    {[img |-> img, chunk |-> <<c, c>>, pin |-> <<pio[1], pio[1]>>,
      pout |-> <<pio[2], pio[2]>>, mask_shape |-> <<WMaxMask, WMaxMask>>, mask |-> m] :
        img \in ((WMaxImg - 1)..WMaxImg) \X ((WMaxImg - 1)..WMaxImg),
        c \in {2, 3},
        pio \in {<<1, 1>>, <<2, 1>>, <<2, 2>>, <<3, 1>>},
        m \in TissueRegions(<<WMaxMask, WMaxMask>>)}
    \cup
    {[img |-> img, chunk |-> <<c, c>>, pin |-> <<pio[1], pio[1]>>,
      pout |-> <<pio[2], pio[2]>>, mask_shape |-> img, mask |-> ImagePixels(img)] :
        img \in ((WMaxImg - 1)..WMaxImg) \X ((WMaxImg - 1)..WMaxImg),
        c \in {2, 3},
        pio \in {<<1, 1>>, <<2, 1>>, <<2, 2>>, <<3, 1>>}}

\* The state when __get_raw_prediction is entered: the buffer is created
\* and not written, the pool is started and idle.
WriterInit ==
    /\ BatchIdle
    /\ GridIdle
    /\ MergeIdle
    /\ w_cfg \in WriterConfigs
    /\ ~_get_chunk_patch_info(w_cfg.img, w_cfg.chunk, w_cfg.pin, w_cfg.pout).err
    /\ w_chunks = _get_chunk_patch_info(w_cfg.img, w_cfg.chunk, w_cfg.pin, w_cfg.pout).chunk
    /\ w_patches = _get_chunk_patch_info(w_cfg.img, w_cfg.chunk, w_cfg.pin, w_cfg.pout).patch
    /\ w_idx = 1
    /\ w_pc = "loop"
    /\ w_queue = <<>>
    /\ w_worker = [w \in Writers |-> Idle]
    /\ w_pred_map = [p \in ImagePixels(w_cfg.img) |-> 0]
    /\ w_log = <<>>

\* The patches of chunk idx that pass both selections.
ValidChunkPatches(idx) ==
    select_valid_patches(ChunkPatches(w_chunks[idx], w_patches, w_cfg.pin),
                         w_cfg.mask, w_cfg.mask_shape, w_cfg.img)

\* One iteration of the chunk loop with no valid patch: the writer is
\* handed (chunk_info, None); nothing is read and the model is not run.
ChunkSkip ==
    /\ w_pc = "loop" /\ w_idx <= Len(w_chunks)
    /\ Len(ValidChunkPatches(w_idx)) = 0
    /\ w_queue' = Append(w_queue, [chunk |-> w_idx, chunk_info |-> w_chunks[w_idx],
                                   none |-> TRUE, patch_output_list |-> <<>>])
    /\ w_log' = Append(w_log, [chunk |-> w_idx, read |-> FALSE, run |-> FALSE])
    /\ w_idx' = w_idx + 1
    /\ UNCHANGED <<w_cfg, w_chunks, w_patches, w_pc, w_worker, w_pred_map, gvars, mvars, dvars, bvars>>

\* The prediction collaborator (the patch loader and run_step behind
\* __run_model): every prediction comes back paired with the coordinate of
\* the patch it was computed from, and has the patch output shape.
PairedOutput(pcoord, patch) == [pcoord |-> pcoord, pdata |-> patch.input[1]]

PdataShape(cfg) == cfg.pout

\* One iteration with valid patches: the chunk is read, the patch
\* coordinates are shifted to the chunk's origin, the model is run and the
\* writer is handed the (coordinate, prediction) list.  pdata is stood for
\* by the patch it was computed from.
ChunkInfer ==
    /\ w_pc = "loop" /\ w_idx <= Len(w_chunks)
    /\ Len(ValidChunkPatches(w_idx)) > 0
    /\ LET sel == ValidChunkPatches(w_idx)
           chunk_info == w_chunks[w_idx]
           patch_output_list ==
               [k \in 1..Len(sel) |->
                   PairedOutput(<<sel[k].input[1][1] - chunk_info.input[1][1],
                                  sel[k].input[1][2] - chunk_info.input[1][2]>>, sel[k])]
       IN  w_queue' = Append(w_queue, [chunk |-> w_idx, chunk_info |-> chunk_info,
                                       none |-> FALSE,
                                       patch_output_list |-> patch_output_list])
    /\ w_log' = Append(w_log, [chunk |-> w_idx, read |-> TRUE, run |-> TRUE])
    /\ w_idx' = w_idx + 1
    /\ UNCHANGED <<w_cfg, w_chunks, w_patches, w_pc, w_worker, w_pred_map, gvars, mvars, dvars, bvars>>

\* The prediction step raises: the exception leaves __get_raw_prediction.
ChunkInferFails ==
    /\ w_pc = "loop" /\ w_idx <= Len(w_chunks)
    /\ Len(ValidChunkPatches(w_idx)) > 0
    /\ w_log' = Append(w_log, [chunk |-> w_idx, read |-> TRUE, run |-> FALSE])
    /\ w_pc' = "failed"
    /\ UNCHANGED <<w_cfg, w_chunks, w_patches, w_idx, w_queue, w_worker, w_pred_map, gvars, mvars, dvars, bvars>>

\* The loop is over: proc_pool.close(); proc_pool.join() begins.
LoopEnd ==
    /\ w_pc = "loop" /\ w_idx > Len(w_chunks)
    /\ w_pc' = "join"
    /\ UNCHANGED <<w_cfg, w_chunks, w_patches, w_idx, w_queue, w_worker, w_pred_map, w_log, gvars, mvars, dvars, bvars>>

\* A free process of the pool takes the oldest task and enters
\* _assemble_and_flush.
WriterTake(w) ==
    /\ w_pc \in {"loop", "join"}
    /\ ~w_worker[w].busy
    /\ Len(w_queue) > 0
    /\ w_worker' = [w_worker EXCEPT ![w] = [busy |-> TRUE, task |-> Head(w_queue), pos |-> 1]]
    /\ w_queue' = Tail(w_queue)
    /\ UNCHANGED <<w_cfg, w_chunks, w_patches, w_idx, w_pc, w_pred_map, w_log, gvars, mvars, dvars, bvars>>

\* The pixels chunk_pred_map[pcoord : pcoord + pdata.shape] stands for in
\* the buffer: chunk_pred_map is the view of the chunk's output box.
PatchWritePixelsInputView(chunk_info, pcoord, pdata_shape, img) ==
    LET view_tl == chunk_info.input[1]
        view_shape == <<Min2(chunk_info.input[2][1], img[1]) - view_tl[1],
                        Min2(chunk_info.input[2][2], img[2]) - view_tl[2]>>
        rel == SlicePixels(pcoord, <<pcoord[1] + pdata_shape[1], pcoord[2] + pdata_shape[2]>>,
                           view_shape)
    IN  {<<view_tl[1] + p[1], view_tl[2] + p[2]>> : p \in rel}

PatchWritePixels(chunk_info, pcoord, pdata_shape, img) ==
    LET view_tl == chunk_info.output[1]
        view_shape == <<Min2(chunk_info.output[2][1], img[1]) - view_tl[1],
                        Min2(chunk_info.output[2][2], img[2]) - view_tl[2]>>
        rel == SlicePixels(pcoord, <<pcoord[1] + pdata_shape[1], pcoord[2] + pdata_shape[2]>>,
                           view_shape)
    IN  {<<view_tl[1] + p[1], view_tl[2] + p[2]>> : p \in rel}

\* _assemble_and_flush, one pass of its loop: the next (pcoord, pdata) is
\* copied into the buffer.  The written pixels count their writes.
WriterWrite(w) ==
    /\ w_worker[w].busy
    /\ ~w_worker[w].task.none
    /\ w_worker[w].pos <= Len(w_worker[w].task.patch_output_list)
    /\ LET pinfo == w_worker[w].task.patch_output_list[w_worker[w].pos]
           px == PatchWritePixels(w_worker[w].task.chunk_info, pinfo.pcoord,
                                  PdataShape(w_cfg), w_cfg.img)
       IN  w_pred_map' = [p \in DOMAIN w_pred_map |->
                             IF p \in px THEN w_pred_map[p] + 1 ELSE w_pred_map[p]]
    /\ w_worker' = [w_worker EXCEPT ![w].pos = @ + 1]
    /\ UNCHANGED <<w_cfg, w_chunks, w_patches, w_idx, w_pc, w_queue, w_log, gvars, mvars, dvars, bvars>>

\* _assemble_and_flush with patch_output_list None: the buffer after it.
\* The zero fill of the chunk's output region is commented out.
FlushNoneZeroFill(map, chunk_info) ==
    [p \in DOMAIN map |->
        IF p \in RectPixels(chunk_info.output[1], chunk_info.output[2])
        THEN map[p] + 1 ELSE map[p]]

FlushNone(map, chunk_info) == map

\* _assemble_and_flush returns: at once for a None list, else after the
\* last patch.
WriterReturn(w) ==
    /\ w_worker[w].busy
    /\ \/ w_worker[w].task.none
       \/ w_worker[w].pos > Len(w_worker[w].task.patch_output_list)
    /\ w_pred_map' = IF w_worker[w].task.none
                     THEN FlushNone(w_pred_map, w_worker[w].task.chunk_info)
                     ELSE w_pred_map
    /\ w_worker' = [w_worker EXCEPT ![w] = Idle]
    /\ UNCHANGED <<w_cfg, w_chunks, w_patches, w_idx, w_pc, w_queue, w_log, gvars, mvars, dvars, bvars>>

\* proc_pool.close(); proc_pool.join(): every task handed to the pool has
\* been executed.
PoolJoinedNoWait == TRUE

PoolJoined ==
    /\ Len(w_queue) = 0
    /\ \A w \in Writers : ~w_worker[w].busy

\* proc_pool.join() returns once every task has been executed, and
\* __get_raw_prediction returns.
JoinReturn ==
    /\ w_pc = "join"
    /\ PoolJoined
    /\ w_pc' = "done"
    /\ UNCHANGED <<w_cfg, w_chunks, w_patches, w_idx, w_queue, w_worker, w_pred_map, w_log, gvars, mvars, dvars, bvars>>

\* process_single_file goes on after __get_raw_prediction has returned:
\* the tiles are planned and the first dispatch begins, whose tiles read
\* the buffer.
BeginPostProcessing ==
    /\ w_pc = "done"
    /\ w_pc' = "post"
    /\ UNCHANGED <<w_cfg, w_chunks, w_patches, w_idx, w_queue, w_worker, w_pred_map, w_log, gvars, mvars, dvars, bvars>>

WriterNext ==
    \/ ChunkSkip
    \/ ChunkInfer
    \/ ChunkInferFails
    \/ LoopEnd
    \/ \E w \in Writers : WriterTake(w)
    \/ \E w \in Writers : WriterWrite(w)
    \/ \E w \in Writers : WriterReturn(w)
    \/ JoinReturn
    \/ BeginPostProcessing

WriterSpec == WriterInit /\ [][WriterNext]_vars

\* C7: at no point are two executions of _assemble_and_flush in progress,
\* however many chunk results are waiting for the writer.
C7_OneWriterAtATime ==
    Cardinality({w \in Writers : w_worker[w].busy}) <= 1

\* C7 witness: the writer is in the middle of one chunk's result list while
\* at least two further chunks are already waiting in its queue.
C7_Witness ==
    /\ Len(w_queue) >= 2
    /\ \E w \in Writers : /\ w_worker[w].busy
                          /\ ~w_worker[w].task.none
                          /\ w_worker[w].pos > 1
                          /\ w_worker[w].pos <= Len(w_worker[w].task.patch_output_list)

(***************************************************************************)
(* The tile grids of _get_tile_info.  A tile is a box <<tl, br>>.          *)
(***************************************************************************)
SetMin(S) == CHOOSE x \in S : \A y \in S : x <= y

SetMax(S) == CHOOSE x \in S : \A y \in S : y <= x

RECURSIVE SortedSeq(_)
\* np.unique: the values of S in increasing order.
SortedSeq(S) ==
    IF S = {} THEN <<>> ELSE <<SetMin(S)>> \o SortedSeq(S \ {SetMin(S)})

\* seq[1:] of a Python sequence.
Rest(seq) == IF Len(seq) = 0 THEN <<>> ELSE Tail(seq)

SeqRange(seq) == {seq[i] : i \in 1..Len(seq)}

_generate_normal_tiles(image_shape, tile_shape) ==
    LET top_left_coords == calculate_patch_coordinates(image_shape, tile_shape, tile_shape).input
    IN  [k \in 1..Len(top_left_coords) |->
            <<top_left_coords[k],
              <<Min2(top_left_coords[k][1] + tile_shape[1], image_shape[1]),
                Min2(top_left_coords[k][2] + tile_shape[2], image_shape[2])>> >>]

TileGrid(normal_tiles, a) == SortedSeq({normal_tiles[k][1][a] : k \in 1..Len(normal_tiles)})

Shift(seq, d) == [i \in 1..Len(seq) |-> seq[i] + d]

\* np.stack([_stack_coords(top_left), _stack_coords(bottom_right)], axis=1)
PairBoxes(tls, brs) == [k \in 1..Len(tls) |-> <<tls[k], brs[k]>>]

\* The half-width of a boundary tile across its seam.
BoundaryHalfWidth(ambiguous_size) == ambiguous_size

_generate_boundary_tiles(normal_tiles, tile_shape, ambiguous_size) ==
    LET tile_grid_y == TileGrid(normal_tiles, 1)
        tile_grid_x == TileGrid(normal_tiles, 2)
        hw == BoundaryHalfWidth(ambiguous_size)
        vertical_boundaries ==
            PairBoxes(MeshPairs(tile_grid_y, Shift(Rest(tile_grid_x), -hw)),
                      MeshPairs(Shift(tile_grid_y, tile_shape[1]),
                                Shift(Rest(tile_grid_x), hw)))
        horizontal_boundaries ==
            PairBoxes(MeshPairs(Shift(Rest(tile_grid_y), -hw), tile_grid_x),
                      MeshPairs(Shift(Rest(tile_grid_y), hw),
                                Shift(tile_grid_x, tile_shape[2])))
    IN  vertical_boundaries \o horizontal_boundaries

_generate_cross_tiles(normal_tiles, ambiguous_size) ==
    LET tile_grid_y == TileGrid(normal_tiles, 1)
        tile_grid_x == TileGrid(normal_tiles, 2)
    IN  PairBoxes(MeshPairs(Shift(Rest(tile_grid_y), -2 * ambiguous_size),
                            Shift(Rest(tile_grid_x), -2 * ambiguous_size)),
                  MeshPairs(Shift(Rest(tile_grid_y), 2 * ambiguous_size),
                            Shift(Rest(tile_grid_x), 2 * ambiguous_size)))

\* _get_tile_info: <<normal, boundary, cross>>.
_get_tile_info(image_shape, tile_shape, ambiguous_size) ==
    LET normal_tiles == _generate_normal_tiles(image_shape, tile_shape)
    IN  <<normal_tiles,
          _generate_boundary_tiles(normal_tiles, tile_shape, ambiguous_size),
          _generate_cross_tiles(normal_tiles, ambiguous_size)>>

\* __select_valid_patches(tile_info, has_output_info=False).
select_valid_tiles(tile_info_list, mask, mask_shape, proc_shape) ==
    SelectSeq(tile_info_list, LAMBDA box : BoxOnTissue(box, mask, mask_shape, proc_shape))

(***************************************************************************)
(* The per-tile segmenter (post_proc_func): it labels the 4-connected      *)
(* foreground components of the block it is given 1, 2, ... in the order   *)
(* of their first pixel, and returns the label block and one info entry    *)
(* per label, except the labels it leaves out (degenerate contours).       *)
(* Info coordinates are tile-relative points (x, y); bbox is <<min, max>>  *)
(* with max exclusive.                                                     *)
(***************************************************************************)
Adjacent(p, q) ==
    \/ p[1] = q[1] /\ (p[2] = q[2] + 1 \/ q[2] = p[2] + 1)
    \/ p[2] = q[2] /\ (p[1] = q[1] + 1 \/ q[1] = p[1] + 1)

RECURSIVE Grow(_, _)
Grow(S, F) ==
    LET N == {q \in F \ S : \E p \in S : Adjacent(p, q)}
    IN  IF N = {} THEN S ELSE Grow(S \cup N, F \ S)

FirstPixel(F) ==
    CHOOSE p \in F : \A q \in F : p[1] < q[1] \/ (p[1] = q[1] /\ p[2] <= q[2])

RECURSIVE Components(_)
Components(F) ==
    IF F = {} THEN <<>>
    ELSE LET C == Grow({FirstPixel(F)}, F)
         IN  <<C>> \o Components(F \ C)

TilePixels(tile, img) == SlicePixels(tile[1], tile[2], img)

\* The result of post-processing one tile: pred_inst over the tile's
\* pixels (kept at their slide positions) and inst_info_dict, without the
\* labels in left_out.
post_proc_func(fg, tile, img, left_out) ==
    LET roi == TilePixels(tile, img)
        comps == Components(fg \cap roi)
        label(p) == IF p \in fg
                    THEN CHOOSE i \in 1..Len(comps) : p \in comps[i]
                    ELSE 0
        bbox(C) ==
            << <<SetMin({p[2] : p \in C}) - tile[1][2], SetMin({p[1] : p \in C}) - tile[1][1]>>,
               <<SetMax({p[2] : p \in C}) + 1 - tile[1][2], SetMax({p[1] : p \in C}) + 1 - tile[1][1]>> >>
    IN  [pred_inst |-> [p \in roi |-> label(p)],
         inst_info_dict |-> [i \in (1..Len(comps)) \ left_out |-> [bbox |-> bbox(comps[i])]]]

NLabels(fg, tile, img) == Len(Components(fg \cap TilePixels(tile, img)))

(***************************************************************************)
(* The two merge callbacks of process_single_file.                         *)
(***************************************************************************)
\* inst_info["bbox"] += top_left, with top_left = tile_tl[::-1] = (x, y).
\* contour and centroid are shifted the same way.
TranslateNone(inst_info, tile_tl) == inst_info

Translate(inst_info, tile_tl) ==
    [bbox |-> << <<inst_info.bbox[1][1] + tile_tl[2], inst_info.bbox[1][2] + tile_tl[1]>>,
                 <<inst_info.bbox[2][1] + tile_tl[2], inst_info.bbox[2][2] + tile_tl[1]>> >>]

\* wsi_max_id: the largest key of the table, 0 for an empty table.
WsiMaxId(info) == IF DOMAIN info = {} THEN 0 ELSE SetMax(DOMAIN info)

\* dict assignment for every entry of new (a later key replaces an earlier
\* equal one).
DictUpdate(info, new) == [k \in DOMAIN info \cup DOMAIN new |->
                             IF k \in DOMAIN new THEN new[k] ELSE info[k]]

DictPop(info, ids) == [k \in DOMAIN info \ ids |-> info[k]]

\* The keys the insertion loop of a callback assigned: the keys of the table
\* after it that were not in the table before it, or hold another entry.
InsertedKeys(info, after) ==
    {k \in DOMAIN after : k \notin DOMAIN info \/ after[k] # info[k]}

\* post_proc_normal_tile_callback: <<map, table>> after it.
post_proc_normal_tile_callback(map, info, tile, results) ==
    IF DOMAIN results.inst_info_dict = {} THEN <<map, info>>
    ELSE
    LET wsi_max_id == WsiMaxId(info)
        new == [k \in {i + wsi_max_id : i \in DOMAIN results.inst_info_dict} |->
                   Translate(results.inst_info_dict[k - wsi_max_id], tile[1])]
        pred_inst == [p \in DOMAIN results.pred_inst |->
                         IF results.pred_inst[p] > 0
                         THEN results.pred_inst[p] + wsi_max_id ELSE 0]
    IN  <<[p \in DOMAIN map |-> IF p \in DOMAIN pred_inst THEN pred_inst[p] ELSE map[p]],
          DictUpdate(info, new)>>

\* The one-pixel border of a block of pixels: its first and last row and
\* its first and last column.
EdgePixels(roi) ==
    LET r0 == SetMin({p[1] : p \in roi})
        r1 == SetMax({p[1] : p \in roi})
        c0 == SetMin({p[2] : p \in roi})
        c1 == SetMax({p[2] : p \in roi})
    IN  {p \in roi : p[1] \in {r0, r1} \/ p[2] \in {c0, c1}}

\* np.unique(values)[1:]: every value but the smallest one.
UniqueTail(values) == SeqRange(Rest(SortedSeq(values)))

\* The ids of the region that touch its border (roi_boundary_inst_list).
RoiBoundaryIds(map, roi) == UniqueTail({map[p] : p \in EdgePixels(roi)})

\* The ids of the region that the fix-up removes (roi_inner_inst_list).
RoiInnerIds(map, roi) == UniqueTail({map[p] : p \in roi}) \ RoiBoundaryIds(map, roi)

\* The ids of inner_inst_list that the insertion loop inserts: an id
\* without an entry in inst_info_dict is logged and skipped.
KeptIdsAllOrNone(inner_inst_list, inst_info_dict) ==
    IF inner_inst_list \subseteq DOMAIN inst_info_dict THEN inner_inst_list ELSE {}

KeptIds(inner_inst_list, inst_info_dict) == inner_inst_list \cap DOMAIN inst_info_dict

\* post_proc_fixing_tile_callback: <<map, table>> after it.
post_proc_fixing_tile_callback(map, info, tile, results) ==
    IF DOMAIN results.inst_info_dict = {} THEN <<map, info>>
    ELSE
    LET roi == DOMAIN results.pred_inst
        wsi_max_id == WsiMaxId(info)
        roi_inner_inst_list == RoiInnerIds(map, roi)
        roi_inst == [p \in roi |-> IF map[p] \in roi_inner_inst_list THEN 0 ELSE map[p]]
        info1 == DictPop(info, roi_inner_inst_list)
        boundary_inst_list == {results.pred_inst[p] : p \in {q \in roi : roi_inst[q] > 0}}
        inner_inst_list == UniqueTail({results.pred_inst[p] : p \in roi}) \ boundary_inst_list
        pred_inst1 == [p \in roi |-> IF results.pred_inst[p] \in boundary_inst_list
                                     THEN 0 ELSE results.pred_inst[p]]
        kept == KeptIds(inner_inst_list, results.inst_info_dict)
        new == [k \in {i + wsi_max_id : i \in kept} |->
                   Translate(results.inst_info_dict[k - wsi_max_id], tile[1])]
        pred_inst2 == [p \in roi |-> IF pred_inst1[p] > 0 THEN pred_inst1[p] + wsi_max_id ELSE 0]
    IN  <<[p \in DOMAIN map |-> IF p \in roi THEN roi_inst[p] + pred_inst2[p] ELSE map[p]],
          DictUpdate(info1, new)>>

(***************************************************************************)
(* Post-processing: the slides of the model.  A slide is a processing      *)
(* shape, a tile shape, an ambiguous size and the foreground of the raw    *)
(* prediction.  The tissue mask covers the whole slide at the processing   *)
(* resolution, or (tissue = "nuclei") exactly the nuclei.                  *)
(***************************************************************************)
MaxBlob == 3
MaxDrops == 1

Rect(tl, shape, img) == BoxPixels(tl, shape) \cap ImagePixels(img)

\* One rectangular nucleus: up to MaxBlob rows, up to the geometry's widest
\* nucleus in columns.  A geometry may add pairs of separate nuclei, and
\* names the most labels the segmenter leaves out on one of its slides
\* (drops, never more than MaxDrops).
Blobs(g) ==
    {Rect(tl, sh, g.img) : tl \in ImagePixels(g.img),
                           sh \in (1..MaxBlob) \X (1..Min2(MaxBlob, g.widest))}

Foregrounds(g) ==
    IF g.dense THEN SUBSET ImagePixels(g.img) ELSE Blobs(g) \cup g.pairs

Geometries ==
    {[img |-> <<3, 3>>, tile_shape |-> <<2, 2>>, ambiguous_size |-> 1, dense |-> TRUE, widest |-> 3,
      tissue |-> "all", pairs |-> {}, drops |-> 1],
     [img |-> <<6, 6>>, tile_shape |-> <<4, 4>>, ambiguous_size |-> 2, dense |-> FALSE, widest |-> 6,
      tissue |-> "all", pairs |-> {{<<1, 3>>, <<2, 4>>}}, drops |-> MaxDrops],
     [img |-> <<9, 6>>, tile_shape |-> <<4, 4>>, ambiguous_size |-> 2, dense |-> FALSE, widest |-> 2,
      tissue |-> "nuclei", pairs |-> {}, drops |-> MaxDrops]}

Slides ==
    UNION {{[img |-> g.img, tile_shape |-> g.tile_shape,
             ambiguous_size |-> g.ambiguous_size, fg |-> f,
             mask |-> IF g.tissue = "all" THEN ImagePixels(g.img) ELSE f,
             drops |-> Min2(MaxDrops, g.drops)] : f \in Foregrounds(g)} :
           g \in Geometries}

\* tile_grid_info, tile_boundary_info, tile_cross_info of process_single_file.
SlideTiles(cfg) ==
    LET tile_coord_set == _get_tile_info(cfg.img, cfg.tile_shape, cfg.ambiguous_size)
    IN  [ph \in Phases |-> select_valid_tiles(tile_coord_set[ph], cfg.mask, cfg.img, cfg.img)]

\* The state when post-processing begins: the map is zero, the table empty.
SlideInit ==
    /\ m_cfg \in Slides
    /\ m_tiles = SlideTiles(m_cfg)
    /\ wsi_inst_map = [p \in ImagePixels(m_cfg.img) |-> 0]
    /\ wsi_inst_info = EmptyDict
    /\ m_phase = 1
    /\ m_status = [ph \in Phases |-> [i \in 1..Len(SlideTiles(m_cfg)[ph]) |-> "new"]]
    /\ m_drops = 0

MergeInit ==
    /\ BatchIdle
    /\ GridIdle
    /\ WriterIdle
    /\ SlideInit
    /\ DispatchIdle

\* The sets of labels the segmenter may leave out of a tile's info map:
\* at most m_cfg.drops labels over the whole slide.
LeftOuts(tile) ==
    {D \in SUBSET (1..NLabels(m_cfg.fg, tile, m_cfg.img)) : Cardinality(D) <= m_cfg.drops - m_drops}

\* The callback of a phase applied to a tile result.
Callback(ph, map, info, tile, results) ==
    IF ph = 1 THEN post_proc_normal_tile_callback(map, info, tile, results)
    ELSE post_proc_fixing_tile_callback(map, info, tile, results)

\* A normal tile is post-processed and its result merged.
MergeNormalTile(i) ==
    /\ m_phase = 1
    /\ m_status[1][i] = "new"
    /\ \E D \in LeftOuts(m_tiles[1][i]) :
          LET res == post_proc_func(m_cfg.fg, m_tiles[1][i], m_cfg.img, D)
              out == post_proc_normal_tile_callback(wsi_inst_map, wsi_inst_info, m_tiles[1][i], res)
          IN  /\ wsi_inst_map' = out[1]
              /\ wsi_inst_info' = out[2]
              /\ m_drops' = m_drops + Cardinality(D)
    /\ m_status' = [m_status EXCEPT ![1][i] = "merged"]
    /\ UNCHANGED <<m_cfg, m_tiles, m_phase, gvars, wvars, dvars, bvars>>

\* A boundary or cross tile is post-processed and its result merged.
MergeFixingTile(i) ==
    /\ m_phase \in {2, 3}
    /\ i \in DOMAIN m_status[m_phase]
    /\ m_status[m_phase][i] = "new"
    /\ \E D \in LeftOuts(m_tiles[m_phase][i]) :
          LET res == post_proc_func(m_cfg.fg, m_tiles[m_phase][i], m_cfg.img, D)
              out == post_proc_fixing_tile_callback(wsi_inst_map, wsi_inst_info,
                                                    m_tiles[m_phase][i], res)
          IN  /\ wsi_inst_map' = out[1]
              /\ wsi_inst_info' = out[2]
              /\ m_drops' = m_drops + Cardinality(D)
    /\ m_status' = [m_status EXCEPT ![m_phase][i] = "merged"]
    /\ UNCHANGED <<m_cfg, m_tiles, m_phase, gvars, wvars, dvars, bvars>>

\* Every tile of the phase is merged: the next dispatch begins.
NextPhase ==
    /\ m_phase \in Phases
    /\ \A i \in DOMAIN m_status[m_phase] : m_status[m_phase][i] = "merged"
    /\ m_phase' = m_phase + 1
    /\ UNCHANGED <<m_cfg, m_tiles, wsi_inst_map, wsi_inst_info, m_status, m_drops,
                   gvars, wvars, dvars, bvars>>

MergeNext ==
    \/ \E i \in 1..Len(m_tiles[1]) : MergeNormalTile(i)
    \/ \E i \in 1..Len(m_tiles[2]) \cup 1..Len(m_tiles[3]) : MergeFixingTile(i)
    \/ NextPhase

MergeSpec == MergeInit /\ [][MergeNext]_vars

(***************************************************************************)
(* Helpers of the merge claims.                                            *)
(***************************************************************************)
AllPhasesDone == m_phase = 4

MapIds == {wsi_inst_map[p] : p \in DOMAIN wsi_inst_map} \ {0}

PixelsOf(id) == {p \in DOMAIN wsi_inst_map : wsi_inst_map[p] = id}

\* bbox is in (x, y) points: pixel <<row, col>> is inside it.
BboxContains(bbox, p) ==
    /\ bbox[1][1] <= p[2] /\ p[2] < bbox[2][1]
    /\ bbox[1][2] <= p[1] /\ p[1] < bbox[2][2]

MapMatchesTable ==
    /\ \A p \in DOMAIN wsi_inst_map :
          wsi_inst_map[p] # 0 =>
              /\ wsi_inst_map[p] \in DOMAIN wsi_inst_info
              /\ BboxContains(wsi_inst_info[wsi_inst_map[p]].bbox, p)
    /\ \A id \in MapIds : Len(Components(PixelsOf(id))) = 1

\* C1 (as stated): after the three merge phases every non-zero pixel of the
\* instance map holds an id that is a key of the table, the bounding box of
\* that entry contains the pixel, and no id stands for two instances (the
\* pixels of one id are one connected nucleus).
C1_MergeUniqueness == AllPhasesDone => MapMatchesTable

\* The same when the segmenter left no id out of its info maps.
MergeUniquenessCompleteInfo == (AllPhasesDone /\ m_drops = 0) => MapMatchesTable


\* The interior grid lines of the normal tiles on axis a: the seams.
Seams(a) == {s \in 1..(m_cfg.img[a] - 1) : s % m_cfg.tile_shape[a] = 0}

Extent(F, a) == {p[a] : p \in F}

\* The foreground is one blob that straddles a seam of axis a by
\* ambiguous_size / 2 on each side.
StraddlesSeam(a) ==
    /\ m_cfg.fg # {}
    /\ Len(Components(m_cfg.fg)) = 1
    /\ \E s \in Seams(a) :
          Extent(m_cfg.fg, a) = (s - (m_cfg.ambiguous_size \div 2))
                                ..(s + (m_cfg.ambiguous_size \div 2) - 1)

C2Case == m_cfg.ambiguous_size >= 2 /\ (StraddlesSeam(1) \/ StraddlesSeam(2))

\* C2 (as stated): a single nucleus that straddles the seam between two
\* adjacent normal tiles by ambiguous_size / 2 on each side, segmented by
\* connected components with complete info maps, is exactly one instance
\* of the table after the three phases.
C2_OneInstanceAtSeam ==
    (AllPhasesDone /\ m_drops = 0 /\ C2Case) => Cardinality(DOMAIN wsi_inst_info) = 1

\* The nucleus has a pixel in the first or last row or column of the slide.
TouchesImageBorder(F) ==
    \E p \in F : \E a \in Axes : p[a] = 0 \/ p[a] = m_cfg.img[a] - 1

\* The same for a nucleus that is away from the border of the slide and no
\* longer than ambiguous_size on either axis.
OneInstanceInsideSlide ==
    (AllPhasesDone /\ m_drops = 0 /\ C2Case /\ ~TouchesImageBorder(m_cfg.fg)
       /\ \A a \in Axes : Cardinality(Extent(m_cfg.fg, a)) <= m_cfg.ambiguous_size)
        => Cardinality(DOMAIN wsi_inst_info) = 1

(***************************************************************************)
(* The dispatcher: __dispatch_post_processing called three times by        *)
(* process_single_file, with nr_post_proc_workers worker processes or, for *)
(* zero workers, synchronously.  A tile of the phase is                    *)
(*   "new"      not yet reached by the submit loop,                        *)
(*   "queued"   submitted to the pool,                                     *)
(*   "running"  being post-processed by a worker,                          *)
(*   "ok"       done, its future holds a result,                           *)
(*   "exc"      done, its future holds an exception,                       *)
(*   "merging"  its merge callback is being executed,                      *)
(*   "merged"   its merge callback has returned,                           *)
(*   "seen"     its exception has been polled.                             *)
(***************************************************************************)
MaxWorkers == 2

DispatchSlides ==
    {[img |-> <<3, 3>>, tile_shape |-> <<2, 2>>, ambiguous_size |-> 1, fg |-> f, mask |-> f,
      drops |-> MaxDrops] :
        f \in {{<<1, 1>>, <<1, 2>>}, {<<0, 0>>, <<2, 2>>}, {<<0, 0>>},
               {<<1, 1>>, <<1, 2>>, <<2, 1>>}}}
    \cup {[img |-> <<9, 6>>, tile_shape |-> <<4, 4>>, ambiguous_size |-> 2,
           fg |-> f, mask |-> f, drops |-> MaxDrops] :
              f \in {{<<7, 2>>, <<8, 2>>}, {<<7, 1>>, <<7, 2>>, <<8, 1>>, <<8, 2>>}}}

DispatchInit ==
    /\ BatchIdle
    /\ GridIdle
    /\ WriterIdle
    /\ m_cfg \in DispatchSlides
    /\ m_tiles = SlideTiles(m_cfg)
    /\ wsi_inst_map = [p \in ImagePixels(m_cfg.img) |-> 0]
    /\ wsi_inst_info = EmptyDict
    /\ m_phase = 1
    /\ m_status = [ph \in Phases |-> [i \in 1..Len(SlideTiles(m_cfg)[ph]) |-> "new"]]
    /\ m_drops = 0
    /\ d_workers \in 0..MaxWorkers
    /\ d_pc = "submit"
    /\ d_idx = 1
    /\ d_cb = {}
    /\ d_out = <<>>
    /\ d_result = [ph \in Phases |-> "none"]
    /\ d_start = <<[p \in ImagePixels(m_cfg.img) |-> 0], EmptyDict>>
    /\ d_given = {}

\* The tile indexes of the phase being dispatched (none once the last
\* dispatch has returned).
PhaseTiles == IF m_phase \in Phases THEN DOMAIN m_status[m_phase] ELSE {}

AnyTile == 1..Len(m_tiles[1]) \cup 1..Len(m_tiles[2]) \cup 1..Len(m_tiles[3])

TilesIn(states) == {i \in PhaseTiles : m_status[m_phase][i] \in states}

SetStatus(i, st) == [m_status EXCEPT ![m_phase][i] = st]

\* The loop of the orchestrating process is between two iterations: it is
\* not inside a callback.
MainIsFreeAlways == TRUE

MainIsFree == d_cb = {}

\* as_completed(future_list) is exhausted: every future has been yielded.
PollDoneNoWait == TRUE

PollDoneOrCrashed ==
    \/ \A i \in PhaseTiles : m_status[m_phase][i] \in {"merged", "seen"}
    \/ \E j \in PhaseTiles : m_status[m_phase][j] = "seen"

PollDone == \A i \in PhaseTiles : m_status[m_phase][i] \in {"merged", "seen"}

\* The flag silent_crash of the polling loop.
silent_crash == \E i \in PhaseTiles : m_status[m_phase][i] = "seen"

\* proc_pool.submit of the next tile.
Submit ==
    /\ d_pc = "submit" /\ d_workers > 0
    /\ d_idx \in PhaseTiles
    /\ m_status' = SetStatus(d_idx, "queued")
    /\ d_idx' = d_idx + 1
    /\ UNCHANGED <<m_cfg, m_tiles, wsi_inst_map, wsi_inst_info, m_phase, m_drops,
                   d_workers, d_pc, d_cb, d_out, d_result, d_start, d_given, gvars, wvars, bvars>>

\* The submit loop is over: the polling loop begins.
SubmitEnd ==
    /\ d_pc = "submit" /\ d_workers > 0
    /\ d_idx \notin PhaseTiles
    /\ d_pc' = "poll"
    /\ UNCHANGED <<mvars, d_workers, d_idx, d_cb, d_out, d_result, d_start, d_given, gvars, wvars, bvars>>

\* A free worker takes the oldest submitted tile.
WorkerStart(i) ==
    /\ d_pc \in {"submit", "poll"} /\ d_workers > 0
    /\ i \in TilesIn({"queued"}) /\ \A j \in TilesIn({"queued"}) : i <= j
    /\ Cardinality(TilesIn({"running"})) < d_workers
    /\ m_status' = SetStatus(i, "running")
    /\ UNCHANGED <<m_cfg, m_tiles, wsi_inst_map, wsi_inst_info, m_phase, m_drops,
                   dvars, gvars, wvars, bvars>>

\* _post_proc_para_wrapper returns in a worker: the future holds the result.
WorkerFinish(i) ==
    /\ d_pc \in {"submit", "poll"}
    /\ i \in TilesIn({"running"})
    /\ \E D \in LeftOuts(m_tiles[m_phase][i]) :
          /\ d_out' = (i :> post_proc_func(m_cfg.fg, m_tiles[m_phase][i], m_cfg.img, D)) @@ d_out
          /\ m_drops' = m_drops + Cardinality(D)
    /\ m_status' = SetStatus(i, "ok")
    /\ UNCHANGED <<m_cfg, m_tiles, wsi_inst_map, wsi_inst_info, m_phase,
                   d_workers, d_pc, d_idx, d_cb, d_result, d_start, d_given, gvars, wvars, bvars>>

\* _post_proc_para_wrapper raises in a worker: the future holds the exception.
WorkerFails(i) ==
    /\ d_pc \in {"submit", "poll"}
    /\ i \in TilesIn({"running"})
    /\ m_status' = SetStatus(i, "exc")
    /\ UNCHANGED <<m_cfg, m_tiles, wsi_inst_map, wsi_inst_info, m_phase, m_drops,
                   dvars, gvars, wvars, bvars>>

\* Synchronous mode: _post_proc_para_wrapper returns in the submit loop.
SyncCompute ==
    /\ d_pc = "submit" /\ d_workers = 0
    /\ d_idx \in TilesIn({"new"})
    /\ \E D \in LeftOuts(m_tiles[m_phase][d_idx]) :
          /\ d_out' = (d_idx :> post_proc_func(m_cfg.fg, m_tiles[m_phase][d_idx], m_cfg.img, D))
                      @@ d_out
          /\ m_drops' = m_drops + Cardinality(D)
    /\ m_status' = SetStatus(d_idx, "ok")
    /\ UNCHANGED <<m_cfg, m_tiles, wsi_inst_map, wsi_inst_info, m_phase,
                   d_workers, d_pc, d_idx, d_cb, d_result, d_start, d_given, gvars, wvars, bvars>>

\* Synchronous mode: _post_proc_para_wrapper raises, and the exception
\* leaves __dispatch_post_processing.
SyncFails ==
    /\ d_pc = "submit" /\ d_workers = 0
    /\ d_idx \in TilesIn({"new"})
    /\ m_status' = SetStatus(d_idx, "exc")
    /\ d_result' = [d_result EXCEPT ![m_phase] = "raised"]
    /\ d_pc' = "crashed"
    /\ UNCHANGED <<m_cfg, m_tiles, wsi_inst_map, wsi_inst_info, m_phase, m_drops,
                   d_workers, d_idx, d_cb, d_out, d_start, d_given, gvars, wvars, bvars>>

\* The polling loop is handed a future that holds an exception.
PollException(i) ==
    /\ d_pc = "poll" /\ MainIsFree
    /\ i \in TilesIn({"exc"})
    /\ m_status' = SetStatus(i, "seen")
    /\ UNCHANGED <<m_cfg, m_tiles, wsi_inst_map, wsi_inst_info, m_phase, m_drops,
                   dvars, gvars, wvars, bvars>>

\* The orchestrating process calls callback(results).
CallbackBegin(i) ==
    /\ MainIsFree
    /\ i \in TilesIn({"ok"})
    /\ d_pc = "poll" \/ (d_pc = "submit" /\ d_workers = 0 /\ i = d_idx)
    /\ m_status' = SetStatus(i, "merging")
    /\ d_cb' = d_cb \cup {i}
    /\ UNCHANGED <<m_cfg, m_tiles, wsi_inst_map, wsi_inst_info, m_phase, m_drops,
                   d_workers, d_pc, d_idx, d_out, d_result, d_start, d_given, gvars, wvars, bvars>>

\* callback(results) returns: the map and the table hold the tile's result.
CallbackEnd(i) ==
    /\ i \in d_cb
    /\ LET out == Callback(m_phase, wsi_inst_map, wsi_inst_info, m_tiles[m_phase][i], d_out[i])
       IN  /\ wsi_inst_map' = out[1]
           /\ wsi_inst_info' = out[2]
           /\ d_given' = d_given \cup {<<k, out[2][k]>> : k \in InsertedKeys(wsi_inst_info, out[2])}
    /\ m_status' = SetStatus(i, "merged")
    /\ d_cb' = d_cb \ {i}
    /\ d_idx' = IF d_workers = 0 THEN d_idx + 1 ELSE d_idx
    /\ UNCHANGED <<m_cfg, m_tiles, m_phase, m_drops,
                   d_workers, d_pc, d_out, d_result, d_start, gvars, wvars, bvars>>

\* __dispatch_post_processing returns; process_single_file calls the next one.
PhaseReturn ==
    /\ \/ d_pc = "poll" /\ PollDone /\ ~silent_crash
       \/ d_pc = "submit" /\ d_workers = 0 /\ d_idx \notin PhaseTiles
    /\ d_result' = [d_result EXCEPT ![m_phase] = "returned"]
    /\ m_phase' = m_phase + 1
    /\ d_pc' = IF m_phase < 3 THEN "submit" ELSE "done"
    /\ d_idx' = 1
    /\ d_out' = <<>>
    /\ d_start' = <<wsi_inst_map, wsi_inst_info>>
    /\ UNCHANGED d_given
    /\ UNCHANGED <<m_cfg, m_tiles, wsi_inst_map, wsi_inst_info, m_status, m_drops,
                   d_workers, d_cb, gvars, wvars, bvars>>

\* assert not silent_crash fails: process_single_file is left by the error.
PhaseRaise ==
    /\ d_pc = "poll" /\ PollDone /\ silent_crash
    /\ d_result' = [d_result EXCEPT ![m_phase] = "raised"]
    /\ d_pc' = "crashed"
    /\ UNCHANGED <<mvars, d_workers, d_idx, d_cb, d_out, d_start, d_given, gvars, wvars, bvars>>

DispatchNext ==
    \/ Submit
    \/ SubmitEnd
    \/ \E i \in AnyTile : WorkerStart(i)
    \/ \E i \in AnyTile : WorkerFinish(i)
    \/ \E i \in AnyTile : WorkerFails(i)
    \/ \E i \in AnyTile : PollException(i)
    \/ \E i \in AnyTile : CallbackBegin(i)
    \/ \E i \in AnyTile : CallbackEnd(i)
    \/ SyncCompute
    \/ SyncFails
    \/ PhaseReturn
    \/ PhaseRaise

DispatchSpec == DispatchInit /\ [][DispatchNext]_vars

(***************************************************************************)
(* Claims about the dispatcher.                                            *)
(***************************************************************************)
InFlight == {"queued", "running", "ok", "exc", "merging"}

Untouched(ph) == \A i \in DOMAIN m_status[ph] : m_status[ph][i] = "new"

AllMerged(ph) == \A i \in DOMAIN m_status[ph] : m_status[ph][i] = "merged"

\* C5 (as stated): when the post-processing of a tile of a phase has failed
\* and the phase has ended with the error, the map and the table are what
\* they were when the phase was entered.
C5_FailedPhaseLeavesState ==
    d_pc = "crashed" => <<wsi_inst_map, wsi_inst_info>> = d_start

\* C6: a tile of a later phase leaves the state "new" only when every tile
\* of every earlier phase is merged and that dispatch has returned, and
\* tiles of two phases are never in flight together.
C6_PhasesInSequence ==
    /\ \A ph \in Phases : \A q \in 1..(ph - 1) :
          ~Untouched(ph) => (AllMerged(q) /\ d_result[q] = "returned")
    /\ Cardinality({ph \in Phases :
                       \E i \in DOMAIN m_status[ph] : m_status[ph][i] \in InFlight}) <= 1

C6_Witness ==
    /\ d_workers > 0
    /\ m_phase = 2
    /\ Len(m_tiles[1]) >= 2
    /\ \E i \in PhaseTiles : m_status[2][i] = "running"
    /\ \E j \in PhaseTiles : m_status[2][j] = "merged"

\* C8: in both modes at most one merge callback is being executed, and the
\* map and the table change only in the step in which the callback that
\* the orchestrating process is executing returns; the steps of the
\* workers leave them alone.
C8_OneCallbackInMain ==
    /\ [](Cardinality(d_cb) <= 1)
    /\ [][(wsi_inst_map' # wsi_inst_map \/ wsi_inst_info' # wsi_inst_info)
             => (Cardinality(d_cb) = 1 /\ d_cb' = {}
                 /\ \E i \in d_cb : m_status[m_phase][i] = "merging"
                                    /\ m_status'[m_phase][i] = "merged")]_vars

C8_Witness ==
    /\ d_workers > 1
    /\ Cardinality(d_cb) = 1
    /\ TilesIn({"ok"}) # {}
    /\ \E p \in DOMAIN wsi_inst_map : wsi_inst_map[p] # 0

\* C9: in parallel mode a dispatch in which a tile failed never returns
\* normally, and when it ends with the error every tile of the phase has
\* completed and has been polled.
C9_FailedPhaseRaisesAfterDrain ==
    d_workers > 0 =>
        \A ph \in Phases :
            /\ (\E i \in DOMAIN m_status[ph] : m_status[ph][i] \in {"exc", "seen"})
                   => d_result[ph] # "returned"
            /\ d_result[ph] = "raised"
                   => \A i \in DOMAIN m_status[ph] : m_status[ph][i] \in {"merged", "seen"}

C9_Witness ==
    /\ d_workers > 0
    /\ d_result[m_phase] = "raised"
    /\ TilesIn({"seen"}) # {}
    /\ TilesIn({"merged"}) # {}
    /\ \E i \in TilesIn({"seen"}) : \E j \in TilesIn({"merged"}) : i < j

(***************************************************************************)
(* The planner specification: the arguments are drawn once, then one of    *)
(* the planner's functions is applied to them.                             *)
(***************************************************************************)
GridInit ==
    /\ BatchIdle
    /\ WriterIdle
    /\ MergeIdle
    /\ g_img \in (0..MaxImg) \X (0..MaxImg)
    /\ g_pin \in (0..MaxPatch) \X (0..MaxPatch)
    /\ g_pout \in (0..MaxPatch) \X (0..MaxPatch)
    /\ g_call = "none"
    /\ g_res = NoRes

CallPatchCoordinates ==
    /\ g_call = "none"
    /\ g_call' = "patch"
    /\ g_res' = calculate_patch_coordinates(g_img, g_pin, g_pout)
    /\ UNCHANGED <<g_img, g_pin, g_pout, wvars, mvars, dvars, bvars>>

CallChunkPatchInfo ==
    /\ g_call = "none"
    /\ \E c \in 1..MaxChunk :
          g_res' = [chunk_input_shape |-> <<c, c>>]
                   @@ _get_chunk_patch_info(g_img, <<c, c>>, g_pin, g_pout)
    /\ g_call' = "chunk"
    /\ UNCHANGED <<g_img, g_pin, g_pout, wvars, mvars, dvars, bvars>>

\* The positive regions of the masks of the filter calls: empty, or one
\* rectangle of a mask of the given shape.
MaskRegions(mask_shape) ==
    {{}} \cup {Rect(tl, sh, mask_shape) : tl \in ImagePixels(mask_shape),
                                         sh \in (1..WMaxMask) \X (1..WMaxMask)}

\* __select_valid_patches applied to the whole patch_info_list of the slide.
CallSelectValidPatches ==
    /\ g_call = "none"
    /\ ~_get_chunk_patch_info(g_img, g_img, g_pin, g_pout).err
    /\ \E ms \in 1..WMaxMask :
          \E mask \in MaskRegions(<<ms, ms>>) :
             LET patch_info_list == _get_chunk_patch_info(g_img, g_img, g_pin, g_pout).patch
             IN  g_res' = [err |-> FALSE, mask_shape |-> <<ms, ms>>, mask |-> mask,
                           patch_info_list |-> patch_info_list,
                           kept |-> select_valid_patches(patch_info_list, mask,
                                                         <<ms, ms>>, g_img)]
    /\ g_call' = "filter"
    /\ UNCHANGED <<g_img, g_pin, g_pout, wvars, mvars, dvars, bvars>>

GridNext == CallPatchCoordinates \/ CallChunkPatchInfo \/ CallSelectValidPatches

GridSpec == GridInit /\ [][GridNext]_vars

(***************************************************************************)
(* Helpers of the planner claims.                                          *)
(***************************************************************************)
PatchCallOk == g_call = "patch" /\ ~g_res.err

ChunkCallOk == g_call = "chunk" /\ ~g_res.err

GDiff == [a \in Axes |-> g_pin[a] - g_pout[a]]

OutputBoxesDisjoint ==
    \A j, k \in 1..Len(g_res.output) :
        j # k => BoxPixels(g_res.output[j], g_pout)
                 \cap BoxPixels(g_res.output[k], g_pout) = {}

OutputUnion ==
    UNION {BoxPixels(g_res.output[k], g_pout) : k \in 1..Len(g_res.output)}

\* C3 (as stated): for every accepted input the output patch boxes are
\* pairwise disjoint and their union is exactly the image rectangle
\* [0, image_shape).
C3_ExactImageCover ==
    PatchCallOk =>
        /\ OutputBoxesDisjoint
        /\ OutputUnion = RectPixels(<<0, 0>>, g_img)

\* C3 (amended): the output patch boxes are pairwise disjoint and their
\* union is exactly one rectangle that starts at diff // 2 on each axis and
\* ends past image_shape - ceil(diff / 2), by at most output_size: every
\* image pixel outside the margin is covered, the first diff // 2 rows and
\* columns are not, and the last boxes may reach outside the image.
C3_CoversCentre ==
    PatchCallOk =>
        /\ OutputBoxesDisjoint
        /\ \E e1 \in 0..(MaxImg + MaxPatch), e2 \in 0..(MaxImg + MaxPatch) :
              /\ OutputUnion = RectPixels(<<GDiff[1] \div 2, GDiff[2] \div 2>>, <<e1, e2>>)
              /\ \A a \in Axes :
                    LET e == IF a = 1 THEN e1 ELSE e2
                        centre_end == g_img[a] - (GDiff[a] - (GDiff[a] \div 2))
                    IN  centre_end < e /\ e <= centre_end + g_pout[a]

\* C3 witness: an accepted call with a positive margin, several patches on
\* each axis and a last output box that reaches outside the image.
C3_Witness ==
    /\ PatchCallOk
    /\ GDiff[1] > 0 /\ GDiff[2] > 0
    /\ Len(g_res.output) >= 4
    /\ \E k \in 1..Len(g_res.output) : g_res.output[k][1] + g_pout[1] > g_img[1]

InputInsideImage(k) ==
    \A a \in Axes : /\ 0 <= g_res.input[k][a]
                    /\ g_res.input[k][a] + g_pin[a] <= g_img[a]

\* C4 (as stated): every input patch box lies within [0, image_shape) on
\* both axes.
C4_InputsInsideImage ==
    PatchCallOk => \A k \in 1..Len(g_res.input) : InputInsideImage(k)

IsLastOnAxis(k, a) ==
    \A j \in 1..Len(g_res.input) : g_res.input[j][a] <= g_res.input[k][a]

\* C4 (amended): every input top-left lies in [0, image_shape - diff]; on
\* each axis every input box except the last of the grid ends inside the
\* image, and the last one reaches past image_shape by at least one pixel
\* and at most output_size.
C4_OnlyLastReachesOut ==
    PatchCallOk =>
        \A k \in 1..Len(g_res.input) : \A a \in Axes :
            LET tl == g_res.input[k][a]
            IN  /\ 0 <= tl /\ tl <= g_img[a] - GDiff[a]
                /\ IF IsLastOnAxis(k, a)
                   THEN /\ g_img[a] < tl + g_pin[a]
                        /\ tl + g_pin[a] <= g_img[a] + g_pout[a]
                   ELSE tl + g_pin[a] <= g_img[a]

\* C4 witness: an accepted call whose grid has a patch that is last on
\* neither axis (and so lies inside the image) and a patch that is last.
C4_Witness ==
    /\ PatchCallOk
    /\ \E k \in 1..Len(g_res.input) :
          ~IsLastOnAxis(k, 1) /\ ~IsLastOnAxis(k, 2) /\ InputInsideImage(k)
    /\ \E k \in 1..Len(g_res.input) : IsLastOnAxis(k, 1) /\ IsLastOnAxis(k, 2)

\* C10 (as stated): in every PatchInfo of _get_chunk_patch_info the output
\* box is the centred region of the input box: for an even margin,
\* output_tl - input_tl = input_br - output_br = margin / 2 on both axes.
C10_PatchOutputCentred ==
    (ChunkCallOk /\ \A a \in Axes : GDiff[a] % 2 = 0) =>
        \A k \in 1..Len(g_res.patch) : \A a \in Axes :
            /\ g_res.patch[k].output[1][a] - g_res.patch[k].input[1][a] = GDiff[a] \div 2
            /\ g_res.patch[k].input[2][a] - g_res.patch[k].output[2][a] = GDiff[a] \div 2

\* The extent of the box on axis a.
BoxExtent(box, a) == box[2][a] - box[1][a]

\* The chunk input shape on axis a after the rounding of lines 249-254.
GChunkInput(a) == round_to_multiple(g_res.chunk_input_shape[a] - GDiff[a], g_pout[a]) + GDiff[a]

\* Chunk k was corrected on axis a: its unclipped box reaches past the image.
ChunkClipped(k, a) == g_res.chunk[k].input[1][a] + GChunkInput(a) > g_img[a]

\* C11: every chunk input box of _get_chunk_patch_info, the last of each
\* row and column included, satisfies 0 <= top-left <= bottom-right <=
\* image_shape on both axes.
C11_ChunkInputInsideImage ==
    ChunkCallOk =>
        \A k \in 1..Len(g_res.chunk) : \A a \in Axes :
            /\ 0 <= g_res.chunk[k].input[1][a]
            /\ g_res.chunk[k].input[1][a] <= g_res.chunk[k].input[2][a]
            /\ g_res.chunk[k].input[2][a] <= g_img[a]

\* C11 witness: a grid of several chunks whose last chunk was shortened on
\* both axes and still has patches to hold.
C11_Witness ==
    /\ ChunkCallOk
    /\ Len(g_res.chunk) >= 4
    /\ \E k \in 1..Len(g_res.chunk) : \A a \in Axes :
          /\ ChunkClipped(k, a)
          /\ BoxExtent(g_res.chunk[k].input, a) < GChunkInput(a)
          /\ BoxExtent(g_res.chunk[k].input, a) > GDiff[a]

IsMultiplePlus(n, step, rest) == \E k \in 0..(MaxImg + MaxChunk) : n = k * step + rest

\* C12 (as stated): every chunk input extent is k * patch_output_size +
\* (patch_input_size - patch_output_size) for an integer k >= 0, and every
\* chunk output extent is an exact multiple of patch_output_size.
C12_ChunkExtentsAligned ==
    ChunkCallOk =>
        \A k \in 1..Len(g_res.chunk) : \A a \in Axes :
            /\ IsMultiplePlus(BoxExtent(g_res.chunk[k].input, a), g_pout[a], GDiff[a])
            /\ IsMultiplePlus(BoxExtent(g_res.chunk[k].output, a), g_pout[a], 0)

\* C12 (amended): every chunk input extent is k * patch_output_size +
\* margin for an integer k >= 0, and the chunk output extent is the same
\* k * patch_output_size plus margin mod 2: an exact multiple for an even
\* margin, one pixel more for an odd one.
C12_ChunkInputExtentAligned ==
    ChunkCallOk =>
        \A k \in 1..Len(g_res.chunk) : \A a \in Axes :
            /\ IsMultiplePlus(BoxExtent(g_res.chunk[k].input, a), g_pout[a], GDiff[a])
            /\ BoxExtent(g_res.chunk[k].output, a)
                   = BoxExtent(g_res.chunk[k].input, a) - GDiff[a] + (GDiff[a] % 2)

\* C12 witness: a chunk call with an odd margin and a patch output size of
\* at least two, with a shortened chunk that still holds patches.
C12_Witness ==
    /\ ChunkCallOk
    /\ \A a \in Axes : GDiff[a] % 2 = 1 /\ g_pout[a] >= 2
    /\ \E k \in 1..Len(g_res.chunk) : \A a \in Axes :
          /\ ChunkClipped(k, a)
          /\ BoxExtent(g_res.chunk[k].input, a) > GDiff[a]
    /\ \E k \in 1..Len(g_res.chunk) : \E a \in Axes : ~ChunkClipped(k, a)

FilterCalled == g_call = "filter"

\* The mask pixels that the output box of a patch overlaps when it is
\* rescaled by down_sample_ratio without rounding (pixels past the mask
\* array included).
OverlappedMaskPixels(box) ==
    LET n == g_res.mask_shape[1]
        d == g_img[1]
    IN  (((box[1][1] * n) \div d)..(((box[2][1] * n + d - 1) \div d) - 1))
        \X (((box[1][2] * n) \div d)..(((box[2][2] * n + d - 1) \div d) - 1))

BoxOutsideTissue(box) == OverlappedMaskPixels(box) \cap g_res.mask = {}

BoxInsideTissue(box) == OverlappedMaskPixels(box) \subseteq g_res.mask

IsKept(pi) == \E j \in 1..Len(g_res.kept) : g_res.kept[j] = pi

\* The kept entries are entries of the list, in the order of the list.
KeptInOrder ==
    \E f \in [1..Len(g_res.kept) -> 1..Len(g_res.patch_info_list)] :
        /\ \A j \in 1..Len(g_res.kept) : g_res.patch_info_list[f[j]] = g_res.kept[j]
        /\ \A i, j \in 1..Len(g_res.kept) : i < j => f[i] < f[j]

\* C13 (as stated): a box entirely outside the positive region of the mask
\* is excluded, a box entirely inside it is included, any box is included
\* iff a pixel of its rescaled, rounded region is positive, and the kept
\* boxes keep their relative order.
C13_MaskFilter ==
    FilterCalled =>
        /\ \A k \in 1..Len(g_res.patch_info_list) :
              LET pi == g_res.patch_info_list[k]
              IN  /\ BoxOutsideTissue(pi.output) => ~IsKept(pi)
                  /\ BoxInsideTissue(pi.output) => IsKept(pi)
                  /\ IsKept(pi) <=> BoxOnTissue(pi.output, g_res.mask, g_res.mask_shape, g_img)
        /\ KeptInOrder

\* The chunks the loop has gone through without a valid patch.
SkippedChunks == {k \in 1..(w_idx - 1) : Len(ValidChunkPatches(k)) = 0}

ChunkOutputPixels(k) ==
    RectPixels(w_chunks[k].output[1], w_chunks[k].output[2]) \cap DOMAIN w_pred_map

MaxSlides == 2

\* What an entry of input_dir can be: a directory, a slide whose output
\* file exists, or a slide to process, with or without a mask file and
\* with the positive pixels of its resolved tissue mask.
EntryKinds ==
    {[dir |-> TRUE], [dir |-> FALSE, has_output |-> TRUE]}
    \cup {[dir |-> FALSE, has_output |-> FALSE, msk_file |-> f, mask |-> m,
           wsi_proc_shape |-> <<3, 3>>] :
             f \in BOOLEAN, m \in {{}, {<<0, 0>>}}}

\* _parse_args: every shape is [value, value].
BatchConfigs ==
    {[patch_input_shape |-> <<io[1], io[1]>>, patch_output_shape |-> <<io[2], io[2]>>,
      chunk_shape |-> <<2, 2>>, save_mask |-> sm, save_thumb |-> st] :
        io \in {<<1, 1>>, <<2, 1>>, <<1, 2>>, <<1, 0>>}, sm \in BOOLEAN, st \in BOOLEAN}

Reverse(seq) == [k \in 1..Len(seq) |-> seq[Len(seq) + 1 - k]]

BatchInit ==
    /\ GridIdle
    /\ WriterIdle
    /\ MergeIdle
    /\ b_cfg \in BatchConfigs
    /\ \E n \in 1..MaxSlides :
          /\ b_glob \in {SortedSeq(1..n), Reverse(SortedSeq(1..n))}
          /\ b_entry \in [1..n -> EntryKinds]
    /\ b_list = <<>>
    /\ b_idx = 0
    /\ b_pc = "glob"
    /\ b_log = <<>>

Slide == b_list[b_idx]

Event(ev) == [slide |-> Slide, ev |-> ev]

\* except Exception: logging.exception("Crash") and the loop goes on.
CatchesExceptionNot == FALSE

CatchesException == TRUE

\* if np.sum(self.wsi_mask) == 0: return.
EmptyMaskNeverSkips(mask) == FALSE

EmptyMaskSkips(mask) == Cardinality(mask) = 0

\* process_single_file returns: log_info("Finish"), next entry.
Returns(events) ==
    /\ b_log' = b_log \o events \o <<Event("Finish")>>
    /\ b_idx' = b_idx + 1
    /\ b_pc' = "next"

\* process_single_file raises.
Raises(events) ==
    IF CatchesException
    THEN /\ b_log' = b_log \o events \o <<Event("Crash")>>
         /\ b_idx' = b_idx + 1
         /\ b_pc' = "next"
    ELSE /\ b_log' = b_log \o events
         /\ b_idx' = b_idx
         /\ b_pc' = "aborted"

Others == <<gvars, wvars, mvars, dvars, b_cfg, b_glob, b_entry>>

\* wsi_path_list = glob.glob(...); wsi_path_list.sort().
ListSlides ==
    /\ b_pc = "glob"
    /\ b_list' = SortedSeq(SeqRange(b_glob))
    /\ b_idx' = 1
    /\ b_pc' = "next"
    /\ UNCHANGED <<Others, b_log>>

\* The head of the loop body: directories and slides with an output file
\* are passed over, any other slide is handed to process_single_file.
NextSlide ==
    /\ b_pc = "next" /\ b_idx <= Len(b_list)
    /\ IF b_entry[Slide].dir
       THEN b_idx' = b_idx + 1 /\ b_pc' = "next" /\ b_log' = b_log
       ELSE IF b_entry[Slide].has_output
       THEN b_idx' = b_idx + 1 /\ b_pc' = "next" /\ b_log' = Append(b_log, Event("Skip"))
       ELSE b_idx' = b_idx /\ b_pc' = "open" /\ b_log' = Append(b_log, Event("Process"))
    /\ UNCHANGED <<Others, b_list>>

\* The loop is over: the cache is cleaned.
BatchEnd ==
    /\ b_pc = "next" /\ b_idx > Len(b_list)
    /\ b_pc' = "end"
    /\ UNCHANGED <<Others, b_list, b_idx, b_log>>

\* get_file_handler, get_dimensions, prepare_reading.
OpenSlide ==
    /\ b_pc = "open"
    /\ b_log' = Append(b_log, Event("open_slide"))
    /\ b_pc' = "mask"
    /\ UNCHANGED <<Others, b_list, b_idx>>

\* The mask is read from its file, or made from the thumbnail of the slide.
LoadMask ==
    /\ b_pc = "mask"
    /\ b_log' = Append(b_log, IF b_entry[Slide].msk_file THEN Event("read_mask_file")
                                                          ELSE Event("read_slide"))
    /\ b_pc' = "check"
    /\ UNCHANGED <<Others, b_list, b_idx>>

\* The mask sums to 0: "Skip due to empty mask!", return.
SkipEmptyMask ==
    /\ b_pc = "check"
    /\ EmptyMaskSkips(b_entry[Slide].mask)
    /\ Returns(<<Event("skip_empty_mask")>>)
    /\ UNCHANGED <<Others, b_list>>

\* The mask and the thumbnail are saved, as configured.
SaveMaskThumb ==
    /\ b_pc = "check"
    /\ ~EmptyMaskSkips(b_entry[Slide].mask)
    /\ b_log' = b_log
                \o (IF b_cfg.save_mask THEN <<Event("write_mask")>> ELSE <<>>)
                \o (IF b_cfg.save_thumb THEN <<Event("read_slide"), Event("write_thumb")>>
                                        ELSE <<>>)
    /\ b_pc' = "buffers"
    /\ UNCHANGED <<Others, b_list, b_idx>>

\* open_memmap of pred_inst.npy and of pred_map.npy.
CreateBuffers ==
    /\ b_pc = "buffers"
    /\ b_log' = b_log \o <<Event("create_inst_map"), Event("create_pred_map")>>
    /\ b_pc' = "plan"
    /\ UNCHANGED <<Others, b_list, b_idx>>

SlidePlan ==
    _get_chunk_patch_info(b_entry[Slide].wsi_proc_shape, b_cfg.chunk_shape,
                          b_cfg.patch_input_shape, b_cfg.patch_output_shape)

\* _get_chunk_patch_info returns the chunk and patch lists.
PlanChunks ==
    /\ b_pc = "plan"
    /\ ~SlidePlan.err
    /\ b_log' = Append(b_log, Event("plan"))
    /\ b_pc' = "infer"
    /\ UNCHANGED <<Others, b_list, b_idx>>

\* _get_chunk_patch_info raises ValueError: the first validation of the
\* configured shapes.
PlanRaises ==
    /\ b_pc = "plan"
    /\ SlidePlan.err
    /\ Raises(<<Event("ValueError")>>)
    /\ UNCHANGED <<Others, b_list>>

\* __get_raw_prediction returns.
Infer ==
    /\ b_pc = "infer"
    /\ b_log' = b_log \o <<Event("read_slide"), Event("infer")>>
    /\ b_pc' = "post1"
    /\ UNCHANGED <<Others, b_list, b_idx>>

\* The prediction step raises.
InferRaises ==
    /\ b_pc = "infer"
    /\ Raises(<<Event("read_slide"), Event("infer_error")>>)
    /\ UNCHANGED <<Others, b_list>>

NextStage(pc) ==
    IF pc = "post1" THEN "post2" ELSE IF pc = "post2" THEN "post3" ELSE "save"

\* One call of __dispatch_post_processing returns.
PostPhase ==
    /\ b_pc \in {"post1", "post2", "post3"}
    /\ b_log' = Append(b_log, Event(b_pc))
    /\ b_pc' = NextStage(b_pc)
    /\ UNCHANGED <<Others, b_list, b_idx>>

\* One call of __dispatch_post_processing raises.
PostPhaseRaises ==
    /\ b_pc \in {"post1", "post2", "post3"}
    /\ Raises(<<Event("post_error")>>)
    /\ UNCHANGED <<Others, b_list>>

\* __save_json, then process_single_file returns.
SaveJson ==
    /\ b_pc = "save"
    /\ Returns(<<Event("save_json")>>)
    /\ UNCHANGED <<Others, b_list>>

BatchNext ==
    \/ ListSlides
    \/ NextSlide
    \/ BatchEnd
    \/ OpenSlide
    \/ LoadMask
    \/ SkipEmptyMask
    \/ SaveMaskThumb
    \/ CreateBuffers
    \/ PlanChunks
    \/ PlanRaises
    \/ Infer
    \/ InferRaises
    \/ PostPhase
    \/ PostPhaseRaises
    \/ SaveJson

BatchSpec == BatchInit /\ [][BatchNext]_vars

(***************************************************************************)
(* Claims about the batch.                                                 *)
(***************************************************************************)
IOEvents == {"open_slide", "read_mask_file", "read_slide", "write_mask", "write_thumb",
             "create_inst_map", "create_pred_map"}

EventsOf(s) == {b_log[j].ev : j \in {i \in 1..Len(b_log) : b_log[i].slide = s}}

\* C15 (as stated): when the configured shapes are rejected, no slide or
\* mask has been read and no mask, thumbnail or buffer file has been
\* written or created for that slide before the error.
C15_GeometryFailsBeforeIO ==
    \A j \in 1..Len(b_log) :
        b_log[j].ev = "ValueError" =>
            \A i \in 1..(j - 1) :
                b_log[i].slide = b_log[j].slide => b_log[i].ev \notin IOEvents

\* The slides that process_single_file is called for, and those among them
\* whose resolved tissue mask sums to 0.
ToProcess == {s \in DOMAIN b_entry : ~b_entry[s].dir /\ ~b_entry[s].has_output}

EmptySlides == {s \in ToProcess : b_entry[s].mask = {}}

\* C18: for a slide whose tissue mask sums to 0, process_single_file only
\* opens the slide and resolves the mask, then returns normally: no buffer
\* is created, no stage is run, nothing is saved and no error is logged.
C18_EmptyMaskSkipped ==
    \A s \in EmptySlides :
        /\ EventsOf(s) \subseteq {"Process", "open_slide", "read_mask_file", "read_slide",
                                  "skip_empty_mask", "Finish"}
        /\ b_pc = "end" => {"skip_empty_mask", "Finish"} \subseteq EventsOf(s)

C18_Witness ==
    /\ b_pc = "end"
    /\ b_cfg.save_mask /\ b_cfg.save_thumb
    /\ \E s \in EmptySlides : "Finish" \in EventsOf(s)
    /\ \E t \in ToProcess \ EmptySlides : "save_json" \in EventsOf(t)

\* The slides handed to process_single_file so far, in order.
Attempts ==
    LET calls == SelectSeq(b_log, LAMBDA e : e.ev = "Process")
    IN  [k \in 1..Len(calls) |-> calls[k].slide]

\* The slide files without an output file, in sorted order.
Expected == SelectSeq(SortedSeq(DOMAIN b_entry), LAMBDA s : s \in ToProcess)

\* C19: an error of one slide never ends the batch; the slides attempted so
\* far are always the first of the slide files without output, in sorted
\* order, each once, and when the batch is over all of them have been
\* attempted and have either finished or been logged as crashed.
C19_BatchContinues ==
    /\ b_pc # "aborted"
    /\ Len(Attempts) <= Len(Expected)
    /\ \A k \in 1..Len(Attempts) : Attempts[k] = Expected[k]
    /\ b_pc = "end" =>
          /\ Attempts = Expected
          /\ \A s \in ToProcess : EventsOf(s) \cap {"Finish", "Crash"} # {}

C19_Witness ==
    /\ b_pc = "end"
    /\ Len(b_glob) >= 2 /\ b_glob[1] > b_glob[2]
    /\ Len(Expected) >= 2
    /\ {"post_error", "Crash"} \subseteq EventsOf(Expected[1])
    /\ "save_json" \in EventsOf(Expected[2])

\* C16: calculate_patch_coordinates raises and returns no grid whenever a
\* size is non-positive, input_size < output_size on an axis or
\* image_shape < input_size on an axis, and returns a grid for every other
\* input.
C16_RejectsExactlyInvalidShapes ==
    g_call = "patch" =>
        /\ g_res.err <=>
              \E a \in Axes : \/ g_img[a] <= 0 \/ g_pin[a] <= 0 \/ g_pout[a] <= 0
                              \/ g_pin[a] < g_pout[a]
                              \/ g_img[a] < g_pin[a]
        /\ g_res.err => DOMAIN g_res = {"err"}
        /\ ~g_res.err => (Len(g_res.input) >= 1 /\ Len(g_res.output) = Len(g_res.input))

\* C16 witness: a call rejected only because the image is smaller than the
\* input patch on one axis.
C16_Witness ==
    /\ g_call = "patch" /\ g_res.err
    /\ \A a \in Axes : g_pout[a] >= 1 /\ g_pin[a] >= g_pout[a]
    /\ g_img[1] >= g_pin[1] /\ g_img[2] < g_pin[2] /\ g_img[2] >= 1

\* The coordinates on axis a of the list of points.
AxisCoords(points, a) == {points[k][a] : k \in 1..Len(points)}

\* floor((image_shape - diff) / output_size) + 1 on axis a.
ExpectedCount(a) == ((g_img[a] - GDiff[a]) \div g_pout[a]) + 1

\* C17: for every accepted input the grid has on each axis exactly
\* floor((image_shape - diff) / output_size) + 1 coordinates, the output
\* top-lefts are the arithmetic sequence from diff // 2 with stride
\* output_size, every combination of the two axes occurs once, and each
\* input top-left is its output top-left minus diff // 2; image 512, input
\* 256, output 164 gives the output top-lefts 46, 210, 374 on each axis.
C17_GridFormula ==
    /\ PatchCallOk =>
          /\ \A a \in Axes :
                AxisCoords(g_res.output, a)
                    = {(GDiff[a] \div 2) + i * g_pout[a] : i \in 0..(ExpectedCount(a) - 1)}
          /\ Len(g_res.output) = ExpectedCount(1) * ExpectedCount(2)
          /\ \A j, k \in 1..Len(g_res.output) : j # k => g_res.output[j] # g_res.output[k]
          /\ Len(g_res.input) = Len(g_res.output)
          /\ \A k \in 1..Len(g_res.output) : \A a \in Axes :
                g_res.input[k][a] = g_res.output[k][a] - (GDiff[a] \div 2)
    /\ LET example == calculate_patch_coordinates(<<512, 512>>, <<256, 256>>, <<164, 164>>)
       IN  /\ ~example.err
           /\ Len(example.output) = 9
           /\ \A a \in Axes : AxisCoords(example.output, a) = {46, 210, 374}

\* C17 witness: an accepted call with an odd margin on one axis, an even
\* positive one on the other and several coordinates on each.
C17_Witness ==
    /\ PatchCallOk
    /\ GDiff[1] % 2 = 1 /\ GDiff[2] = 2
    /\ g_pout[1] >= 2
    /\ ExpectedCount(1) >= 2 /\ ExpectedCount(2) >= 3

\* Two boxes <<tl, br>> share a pixel.
BoxesOverlap(b1, b2) ==
    \A a \in Axes : b1[1][a] < b2[2][a] /\ b2[1][a] < b1[2][a] /\ b1[1][a] < b1[2][a] /\ b2[1][a] < b2[2][a]

\* No two distinct tiles of the list share a pixel.
PairwiseDisjoint(tiles) ==
    \A i, j \in 1..Len(tiles) : i # j => ~BoxesOverlap(tiles[i], tiles[j])

\* C20: within one tile kind (normal, boundary, cross) any two distinct
\* tiles of the slide are disjoint, so two merges of one phase never touch
\* the same pixel of the instance map.
C20_TilesDisjointWithinKind ==
    m_tiles # <<>> => \A kind \in Phases : PairwiseDisjoint(m_tiles[kind])

\* The part of C20 about normal tiles alone.
C20_NormalTilesDisjoint ==
    m_tiles # <<>> => PairwiseDisjoint(m_tiles[1])

\* C21: in parallel mode, once the polling loop has seen the first failed
\* tile of a phase, no further tile of that phase starts processing in a
\* worker.
C21_NoStartAfterFailure ==
    [][(d_workers > 0 /\ silent_crash)
          => \A i \in PhaseTiles : ~(m_status[m_phase][i] = "queued"
                                     /\ m_status'[m_phase][i] = "running")]_vars

(***************************************************************************)
(* Helpers of the fix-up claims: the step that merges tile i of a          *)
(* boundary or cross phase, and the tile's region of the map before it.    *)
(***************************************************************************)
FixStep(i) ==
    /\ m_phase \in {2, 3}
    /\ i \in DOMAIN m_status[m_phase]
    /\ m_status[m_phase][i] = "new"
    /\ m_status'[m_phase][i] = "merged"

Region(i) == TilePixels(m_tiles[m_phase][i], m_cfg.img)

\* The non-zero ids of the region, and those on its one-pixel border.
RegionIds(i) == {wsi_inst_map[p] : p \in Region(i)} \ {0}

BorderIds(i) == {wsi_inst_map[p] : p \in EdgePixels(Region(i))} \ {0}

\* C22: in the fix-up of a boundary or cross tile every non-zero id of the
\* tile's region that is not on the region's one-pixel border is gone from
\* every pixel of the region that held it, and has no table entry after
\* the merge, whatever the tile's fresh result is.
C22_InnerIdsRemoved ==
    [][\A i \in AnyTile : FixStep(i) =>
          \A id \in RegionIds(i) \ BorderIds(i) :
              /\ \A p \in Region(i) : wsi_inst_map[p] = id => wsi_inst_map'[p] # id
              /\ id \notin DOMAIN wsi_inst_info']_vars

\* The pixels of the region that hold an id of the region's border.
PreservedPixels(i) == {p \in Region(i) : wsi_inst_map[p] \in BorderIds(i)}

\* The instances of the tile's fresh label block that overlap a preserved
\* pixel.
OverlappingFresh(i) ==
    LET comps == Components(m_cfg.fg \cap Region(i))
    IN  {comps[k] : k \in {n \in 1..Len(comps) : comps[n] \cap PreservedPixels(i) # {}}}

\* C23: in the fix-up of a boundary or cross tile every pixel of the region
\* that holds a non-zero id found on the region's one-pixel border holds
\* the same id after the merge, the id's table entry is kept, and a fresh
\* instance that overlaps such a pixel is written nowhere.
C23_EdgeIdsPreserved ==
    [][\A i \in AnyTile : FixStep(i) =>
          /\ \A p \in PreservedPixels(i) : wsi_inst_map'[p] = wsi_inst_map[p]
          /\ \A id \in BorderIds(i) \cap DOMAIN wsi_inst_info :
                id \in DOMAIN wsi_inst_info' /\ wsi_inst_info'[id] = wsi_inst_info[id]
          /\ \A C \in OverlappingFresh(i) : \A p \in C :
                wsi_inst_map'[p] \in {0, wsi_inst_map[p]}]_vars

(***************************************************************************)
(* Helpers of the order claim: the outcome of merging the results of the   *)
(* phase in index order, and equality of two outcomes up to a renaming of  *)
(* the instance ids.                                                       *)
(***************************************************************************)
RECURSIVE MergeInOrder(_, _, _, _)
\* <<map, table>> after the callbacks of tiles k, k + 1, ... of phase ph
\* have run in this order on state st with the results out.
MergeInOrder(ph, st, out, k) ==
    IF k > Len(m_tiles[ph]) THEN st
    ELSE MergeInOrder(ph, Callback(ph, st[1], st[2], m_tiles[ph][k], out[k]), out, k + 1)

IdsOf(st) == ({st[1][p] : p \in DOMAIN st[1]} \ {0}) \cup DOMAIN st[2]

Bijections(A, B) ==
    {f \in [A -> B] : \A b \in B : \E a \in A : f[a] = b}

SameUpToRenaming(s1, s2) ==
    /\ Cardinality(IdsOf(s1)) = Cardinality(IdsOf(s2))
    /\ \E f \in Bijections(IdsOf(s1), IdsOf(s2)) :
          /\ \A p \in DOMAIN s1[1] :
                s2[1][p] = IF s1[1][p] = 0 THEN 0 ELSE f[s1[1][p]]
          /\ DOMAIN s2[2] = {f[k] : k \in DOMAIN s1[2]}
          /\ \A k \in DOMAIN s1[2] : s2[2][f[k]] = s1[2][k]

\* Every tile of the phase has been merged and no tile failed.
PhaseComplete ==
    /\ m_phase \in Phases
    /\ \A i \in PhaseTiles : m_status[m_phase][i] = "merged"
    /\ DOMAIN d_out = PhaseTiles

\* C24: when every tile of a phase has been merged, the map and the table
\* are, up to a renaming of the instance ids, what merging the same tile
\* results in index order gives, whatever order they were merged in.
C24_OrderIndependent ==
    PhaseComplete =>
        SameUpToRenaming(<<wsi_inst_map, wsi_inst_info>>,
                         MergeInOrder(m_phase, d_start, d_out, 1))

\* The i-th output coordinate on axis a (i from 1): diff // 2 + (i - 1) * output_size.
AxisCoord(a, i) == (GDiff[a] \div 2) + (i - 1) * g_pout[a]

\* The list has one entry per pair of axis indexes, and the input list
\* follows the output list entry by entry.
FullGridSameOrder ==
    /\ Len(g_res.output) = ExpectedCount(1) * ExpectedCount(2)
    /\ Len(g_res.input) = Len(g_res.output)
    /\ \A k \in 1..Len(g_res.output) :
          g_res.input[k] = <<g_res.output[k][1] - (GDiff[1] \div 2),
                             g_res.output[k][2] - (GDiff[2] \div 2)>>

\* C25 (as stated): the patch list is the full product of the per-axis
\* sequences in row-major order, the row coordinate in the outer loop and
\* the column coordinate in the inner loop, the same for both lists.
C25_RowMajorOrder ==
    PatchCallOk =>
        /\ FullGridSameOrder
        /\ \A k \in 1..Len(g_res.output) :
              g_res.output[k] = <<AxisCoord(1, ((k - 1) \div ExpectedCount(2)) + 1),
                                  AxisCoord(2, ((k - 1) % ExpectedCount(2)) + 1)>>

\* C25 (amended): the patch list is the full product of the per-axis
\* sequences with the column coordinate in the outer loop and the row
\* coordinate in the inner loop, the same for both lists.
C25_ColumnOuterRowInner ==
    PatchCallOk =>
        /\ FullGridSameOrder
        /\ \A k \in 1..Len(g_res.output) :
              g_res.output[k] = <<AxisCoord(1, ((k - 1) % ExpectedCount(1)) + 1),
                                  AxisCoord(2, ((k - 1) \div ExpectedCount(1)) + 1)>>

\* C25 witness: an accepted call whose grid has two rows and three columns,
\* so that the two orders differ.
C25_Witness ==
    /\ PatchCallOk
    /\ ExpectedCount(1) = 2 /\ ExpectedCount(2) = 3
    /\ Len(g_res.output) = 6
    /\ g_res.output[2][1] # g_res.output[1][1]

\* C26: for every accepted input of _get_chunk_patch_info whose patch
\* margin is even on both axes, the output boxes of two distinct chunks
\* share no pixel.
C26_ChunkOutputsDisjoint ==
    (ChunkCallOk /\ \A a \in Axes : GDiff[a] % 2 = 0) =>
        \A j, k \in 1..Len(g_res.chunk) :
            j # k => ~BoxesOverlap(g_res.chunk[j].output, g_res.chunk[k].output)

\* C26 witness: an even positive margin, at least four chunks with
\* non-empty output boxes, the last one shortened on both axes.
C26_Witness ==
    /\ ChunkCallOk
    /\ \A a \in Axes : GDiff[a] = 2
    /\ Len(g_res.chunk) >= 4
    /\ \A k \in 1..Len(g_res.chunk) : \A a \in Axes : BoxExtent(g_res.chunk[k].output, a) >= 1
    /\ \E k \in 1..Len(g_res.chunk) : \A a \in Axes : ChunkClipped(k, a)

\* The writes handed to the writer that are not finished: tasks waiting in
\* its queue and the task it is executing.
PendingWrites ==
    Len(w_queue) + Cardinality({w \in Writers : w_worker[w].busy})

\* C27: when __get_raw_prediction has returned, and so when the first
\* post-processing tile reads the buffer, no write handed to the writer is
\* pending and every chunk has been handed over; from then on the buffer
\* does not change.
C27_WritesDoneBeforePostProcessing ==
    /\ [](w_pc \in {"done", "post"} => (PendingWrites = 0 /\ w_idx > Len(w_chunks)))
    /\ [][(w_pc \in {"done", "post"}) => (w_pred_map' = w_pred_map)]_vars

\* C27 witness: post-processing has begun on a buffer that holds the
\* writes of at least two chunks.
C27_Witness ==
    /\ w_pc = "post"
    /\ Cardinality({k \in 1..Len(w_log) : w_log[k].run}) >= 2
    /\ \E p \in DOMAIN w_pred_map : w_pred_map[p] > 0

(***************************************************************************)
(* Helpers of the claims about one merge: the step that merges normal      *)
(* tile i, the results the segmenter can have returned for it in that      *)
(* step, and the largest key of the table before the step.                 *)
(***************************************************************************)
NormalStep(i) ==
    /\ m_phase = 1
    /\ i \in DOMAIN m_status[1]
    /\ m_status[1][i] = "new"
    /\ m_status'[1][i] = "merged"

StepResults(tile) ==
    {post_proc_func(m_cfg.fg, tile, m_cfg.img, D) :
        D \in {E \in LeftOuts(tile) : Cardinality(E) = m_drops' - m_drops}}

LargestKey ==
    IF DOMAIN wsi_inst_info = {} THEN 0
    ELSE CHOOSE k \in DOMAIN wsi_inst_info : \A j \in DOMAIN wsi_inst_info : j <= k

\* The bbox of a tile-relative entry moved by the tile's top-left
\* <<row, col>>; the points of a bbox are (x, y).
MovedBy(bbox, tl) ==
    << <<bbox[1][1] + tl[2], bbox[1][2] + tl[1]>>, <<bbox[2][1] + tl[2], bbox[2][2] + tl[1]>> >>

\* C28: the merge of a normal tile whose info map is not empty inserts each
\* local id i under the key i + m, m the largest key before the merge (0
\* for an empty table), with its coordinates moved by the tile's top-left,
\* makes the tile's map region the label block with every positive label
\* raised by m, and leaves the other table entries and the pixels outside
\* the tile alone; a tile whose info map is empty changes nothing.
C28_NormalTileMerge ==
    [][\A i \in AnyTile : NormalStep(i) =>
          \E res \in StepResults(m_tiles[1][i]) :
             LET local == DOMAIN res.inst_info_dict
                 m == LargestKey
             IN  IF local = {}
                 THEN wsi_inst_map' = wsi_inst_map /\ wsi_inst_info' = wsi_inst_info
                 ELSE /\ DOMAIN wsi_inst_info' = DOMAIN wsi_inst_info \cup {k + m : k \in local}
                      /\ \A k \in local :
                            wsi_inst_info'[k + m].bbox
                                = MovedBy(res.inst_info_dict[k].bbox, m_tiles[1][i][1])
                      /\ \A k \in DOMAIN wsi_inst_info : wsi_inst_info'[k] = wsi_inst_info[k]
                      /\ \A p \in DOMAIN wsi_inst_map :
                            wsi_inst_map'[p] =
                                IF p \in DOMAIN res.pred_inst
                                THEN (IF res.pred_inst[p] > 0 THEN res.pred_inst[p] + m ELSE 0)
                                ELSE wsi_inst_map[p]]_vars

\* C28 witness: a normal tile away from the slide's origin has been merged
\* into a table that was not empty, and holds two instances.
C28_Witness ==
    /\ m_phase = 1
    /\ \E i \in DOMAIN m_status[1] :
          /\ m_status[1][i] = "merged"
          /\ m_tiles[1][i][1][1] > 0 /\ m_tiles[1][i][1][2] > 0
          /\ Cardinality({wsi_inst_map[p] : p \in TilePixels(m_tiles[1][i], m_cfg.img)} \ {0}) >= 1
          /\ \E p \in TilePixels(m_tiles[1][i], m_cfg.img) : wsi_inst_map[p] >= 3
    /\ Cardinality(DOMAIN wsi_inst_info) >= 3

\* The labels of a fresh label block, and the pixels of one of them.
FreshLabels(res) == {res.pred_inst[p] : p \in DOMAIN res.pred_inst} \ {0}

FreshPixels(res, k) == {p \in DOMAIN res.pred_inst : res.pred_inst[p] = k}

\* The fresh labels that overlap no preserved pixel of the region.
FreshKept(i, res) == {k \in FreshLabels(res) : FreshPixels(res, k) \cap PreservedPixels(i) = {}}

\* C29: a fix-up merge whose fresh result has a label without an entry in
\* the fresh info map is carried out; that label gets no entry in the
\* table, and every other kept label of the tile is inserted under its key
\* with its coordinates moved and is written to the map.
C29_MissingInfoSkipped ==
    [][\A i \in AnyTile : (FixStep(i) /\ m_drops' # m_drops) =>
          \E res \in StepResults(m_tiles[m_phase][i]) :
             LET m == LargestKey
                 missing == FreshLabels(res) \ DOMAIN res.inst_info_dict
             IN  /\ \A k \in missing : (k + m) \notin DOMAIN wsi_inst_info'
                 /\ missing # {}
                 /\ \A k \in FreshKept(i, res) \ missing :
                       /\ (k + m) \in DOMAIN wsi_inst_info'
                       /\ wsi_inst_info'[k + m].bbox
                              = MovedBy(res.inst_info_dict[k].bbox, m_tiles[m_phase][i][1])
                       /\ \A p \in FreshPixels(res, k) : wsi_inst_map'[p] = k + m]_vars

\* C29 witness: a fix-up tile with two fresh nuclei inside it has been
\* merged; one of them was left out of the fresh info map and has no table
\* entry, the other one has been inserted with a new key.
C29_Witness ==
    /\ m_phase = 2
    /\ m_drops = 1
    /\ m_cfg.fg = {<<1, 3>>, <<2, 4>>}
    /\ \A i \in DOMAIN m_status[2] : m_status[2][i] = "merged"
    /\ wsi_inst_map[<<1, 3>>] # 0 /\ wsi_inst_map[<<1, 3>>] \notin DOMAIN wsi_inst_info
    /\ wsi_inst_map[<<2, 4>>] \in DOMAIN wsi_inst_info
    /\ wsi_inst_map[<<2, 4>>] >= 3

\* A callback of the dispatcher merges tile i of the running phase.
MergeStep(i) == i \in d_cb /\ m_status' # m_status

\* The largest key of the table just before the step (0 for an empty table)
\* is below every key the step inserted, and the step left every entry it
\* did not delete as it was.
InsertsAboveTable ==
    /\ \A k \in InsertedKeys(wsi_inst_info, wsi_inst_info') : k > WsiMaxId(wsi_inst_info)
    /\ \A k \in DOMAIN wsi_inst_info \cap DOMAIN wsi_inst_info' :
          wsi_inst_info'[k] = wsi_inst_info[k]

\* The keys of the step's insertions that an earlier merge gave to another
\* instance (an entry with another bounding box).
KeysGivenBefore ==
    {k \in InsertedKeys(wsi_inst_info, wsi_inst_info') :
        \E h \in d_given : h[1] = k /\ h[2] # wsi_inst_info'[k]}

\* C30 (as stated): every key a tile's merge inserts into the table (phase
\* 1, 2 or 3) is strictly greater than every key that was in the table just
\* before the merge, the merge overwrites no entry, and no key is ever
\* given to two instances, also after a fix-up has deleted entries.
C30_KeysNeverReused ==
    [][\A i \in AnyTile : MergeStep(i) => (InsertsAboveTable /\ KeysGivenBefore = {})]_vars

\* The part of C30 about one merge: inserted keys are above the table and
\* no entry is overwritten.
KeysAboveTableEachMerge ==
    [][\A i \in AnyTile : MergeStep(i) => InsertsAboveTable]_vars

\* A key stands in the history with two different entries.
KeyGivenTwice == \E g, h \in d_given : g[1] = h[1] /\ g[2] # h[2]

\* The chunks of the plan that select patch j of the plan, by the selection
\* rule of __get_raw_prediction alone (the mask accepts every patch).
SelectingChunks(j) ==
    {k \in 1..Len(g_res.chunk) :
        g_res.patch[j] \in SeqRange(ChunkPatches(g_res.chunk[k], g_res.patch, g_pin))}

\* The input box of patch j lies inside the image.
InputBoxInsideImage(j) == \A a \in Axes : g_res.patch[j].input[2][a] <= g_img[a]

\* C31: with a tissue mask that accepts every patch, a patch of the
\* planner's grid is selected by exactly one chunk when its input box lies
\* inside the image and by no chunk otherwise; no patch is selected by two
\* chunks.
C31_PatchSelectedOnce ==
    ChunkCallOk =>
        \A j \in 1..Len(g_res.patch) :
            Cardinality(SelectingChunks(j)) = IF InputBoxInsideImage(j) THEN 1 ELSE 0

\* C31 witness: a plan with a margin and several chunks on each axis, the
\* last of them clipped; a patch inside the image belongs to a chunk other
\* than the first, and a patch that reaches outside belongs to none.
C31_Witness ==
    /\ ChunkCallOk
    /\ \A a \in Axes : g_pin[a] > g_pout[a]
    /\ Len(g_res.chunk) >= 4
    /\ \E k \in 1..Len(g_res.chunk) : \E a \in Axes :
          g_res.chunk[k].input[2][a] < g_res.chunk[k].input[1][a] + g_res.chunk_input_shape[a]
    /\ \E j \in 1..Len(g_res.patch) :
          InputBoxInsideImage(j) /\ SelectingChunks(j) # {} /\ 1 \notin SelectingChunks(j)
    /\ \E j \in 1..Len(g_res.patch) : ~InputBoxInsideImage(j) /\ SelectingChunks(j) = {}

\* The writer copies one patch prediction into the buffer in this step.
PatchWritten(w) ==
    /\ w_worker[w].busy /\ w_worker'[w].busy
    /\ w_worker'[w].pos = w_worker[w].pos + 1

\* The pixels of the buffer the step wrote.
WrittenPixels == {p \in DOMAIN w_pred_map : w_pred_map'[p] # w_pred_map[p]}

\* The centred output box of the patch whose input top-left is tl:
\* tl + diff // 2, of the patch output shape.
CentredOutputBox(tl) ==
    BoxPixels(<<tl[1] + ((w_cfg.pin[1] - w_cfg.pout[1]) \div 2),
                tl[2] + ((w_cfg.pin[2] - w_cfg.pout[2]) \div 2)>>, w_cfg.pout)

\* C32: each patch prediction is written at the absolute position of the
\* patch's centred output box (patch input top-left + diff // 2), entirely
\* inside the output region of the chunk that selected it, and during one
\* slide's inference no pixel of the buffer is written more than once.
C32_PatchWrittenOnceAtCentre ==
    /\ [](\A p \in DOMAIN w_pred_map : w_pred_map[p] <= 1)
    /\ [][\A w \in Writers : PatchWritten(w) =>
              LET task == w_worker[w].task
                  pinfo == task.patch_output_list[w_worker[w].pos]
              IN  /\ WrittenPixels = CentredOutputBox(pinfo.pdata)
                  /\ WrittenPixels \subseteq RectPixels(task.chunk_info.output[1],
                                                        task.chunk_info.output[2])]_vars

\* C32 witness: inference of a slide with a margin has ended; patches of
\* at least two chunks were written, and some pixel was left unwritten.
C32_Witness ==
    /\ w_pc = "done"
    /\ \A a \in Axes : w_cfg.pin[a] - w_cfg.pout[a] >= 2
    /\ Cardinality({k \in 1..Len(w_log) : w_log[k].run}) >= 2
    /\ Cardinality({p \in DOMAIN w_pred_map : w_pred_map[p] = 1}) >= 2
    /\ \E p \in DOMAIN w_pred_map : w_pred_map[p] = 0

=============================================================================
